---------------------------- MODULE Spec2Model ----------------------------
(***************************************************************************)
(* Model of the spacegate core ingest (scripts/ingest_core.py): the        *)
(* union-find used by the proximity pass, the build lock, the Morton       *)
(* encoder and the grouping pipeline of main().                            *)
(*                                                                         *)
(* Lengths are integers in units of 1/16 light-year, so that the cell      *)
(* size and the pairing distance (0.25 ly) are both 4 units and the Morton *)
(* domain bound (1000 ly) is 16000 units.  SQL NULL / Python None is the   *)
(* value NULL.  Normalised name roots and stable object keys are strings   *)
(* in the program; the model uses positive integers that stand for them    *)
(* in their lexicographic order.                                           *)
(***************************************************************************)
EXTENDS Integers, Sequences, FiniteSets, TLC

VARIABLES
    uf,         \* the UnionFind instance: [parent |-> dict, rank |-> dict]
    unions,     \* history: the (a, b) arguments of the union calls made so far
    lockFile,   \* the build lock file: [exists, creator, pid, build_id]
    lpc,        \* per build process: its position in acquire_lock / its life
    lpid,       \* per build process: the pid parsed from the lock details it read
    coord,      \* the (x, y, z) passed to morton3d
    encoded,    \* the outcome of the morton3d call: [called, raised, key]
    pc,         \* main(): the statement the build has reached
    exit_reason,\* main(): why the build ended ("" while it runs)
    fs,         \* the state directory: [final, tmp, made_tmp, reports]
    gates,      \* history: the gates this run has passed
    man,        \* the manifest main() loaded and the values it derives from it
    stars,      \* table stars
    name_groups,\* temp table name_groups
    proximity_enabled,  \* proximity_enabled (SPACEGATE_ENABLE_PROXIMITY == "1")
    pre,        \* preflight: [ran, intra_pairs, neighbor_upper, estimate_pairs, limit]
    batch_size, \* batch_size of the pairing loop
    batch_idx,  \* idx of the pairing loop
    pending,    \* pairs fetched for the current batch and not yet given to uf.union
    pair_count, \* pair_count
    emitted,    \* history: every pair a pairing query has returned, with how often
    prox_groups,    \* temp table prox_groups: [exists, rows]
    system_groups,  \* temp table system_groups
    systems,    \* table systems
    planets,    \* table planets
    search_db,      \* API: the systems rows the search endpoint reads
    search_mode,    \* API: "match" when match_mode, else sort_key
    search_limit,   \* API: the limit of the search requests
    page_items,     \* API: items of the last search response
    next_cursor,    \* API: next_cursor of the last search response, decoded
    pages,          \* history: the system_ids of the pages, in the order fetched
    admin_jobs,     \* API: the admin_jobs table, a row per job_id: [status, created_at]
    job_now,        \* API: the clock _utc_now() reads for created_at
    runner_lock,    \* API: _RUNNER_LOCK: its holder and the rows its holder selected
    caller_pc,      \* API: position of each request thread inside start_job
    worker_pc,      \* API: position of the worker thread of each job_id
    job_cfg,        \* API: SPACEGATE_ADMIN_MAX_RUNNING_JOBS / _MAX_QUEUED_JOBS as parsed
    launched,       \* history: how many worker threads were started for each job_id
    job_reply       \* API: outcome of the last start_job / cancel_job call

ufVars == <<uf, unions>>
lockVars == <<lockFile, lpc, lpid>>
mortonVars == <<coord, encoded>>
searchVars == <<search_db, search_mode, search_limit, page_items, next_cursor, pages>>
jobVars == <<admin_jobs, job_now, runner_lock, caller_pc, worker_pc, job_cfg, launched,
            job_reply>>
apiVars == <<searchVars, jobVars>>
buildVars == <<pc, exit_reason, fs, gates, man, stars, name_groups,
               proximity_enabled, pre, batch_size, batch_idx, pending, pair_count, emitted, prox_groups, system_groups,
               systems, planets>>
vars == <<uf, unions, lockFile, lpc, lpid, coord, encoded, pc, exit_reason, fs,
          gates, man, stars, name_groups, proximity_enabled, pre, batch_size, batch_idx,
          pending, pair_count,
          emitted, prox_groups, system_groups, systems, planets,
          search_db, search_mode, search_limit, page_items, next_cursor, pages,
          admin_jobs, job_now, runner_lock, caller_pc, worker_pc, job_cfg, launched,
          job_reply>>

NULL == 0 - 999999

---------------------------------------------------------------------------
(* Bounds of the model *)

\* UnionFind API runs: element ids are 1..MaxElem, at most MaxUnions distinct union calls
MaxElem == 4
MaxUnions == 3
\* Concurrent builds contending for the lock file
NumBuilds == 2
\* Rows of the cooked AT-HYG catalog given to one build
MaxStars == 3

---------------------------------------------------------------------------
(* class UnionFind *)

Elems == 1..MaxElem

\* UnionFind.__init__: two empty dicts
UnionFind == [parent |-> << >>, rank |-> << >>]

\* UnionFind.add
add(u, x) ==
    IF x \in DOMAIN u.parent
    THEN u
    ELSE [parent |-> (x :> x) @@ u.parent, rank |-> (x :> 0) @@ u.rank]

\* UnionFind.find: returns [uf |-> the structure after the call, ret |-> the value returned]
RECURSIVE find(_, _)
find(u, x) ==
    LET u1 == add(u, x)
        root == u1.parent[x]
    IN  IF root # x
        THEN LET r == find(u1, root)
                 u2 == [r.uf EXCEPT !.parent[x] = r.ret]
             IN  [uf |-> u2, ret |-> u2.parent[x]]
        ELSE [uf |-> u1, ret |-> u1.parent[x]]

\* UnionFind.union always linking rb under ra and leaving the ranks alone
union_norank(u, a, b) ==
    LET u1 == add(add(u, a), b)
        fa == find(u1, a)
        fb == find(fa.uf, b)
        ra == fa.ret
        rb == fb.ret
        u2 == fb.uf
    IN  IF ra = rb THEN u2 ELSE [u2 EXCEPT !.parent[rb] = ra]

\* UnionFind.union linking the arguments themselves instead of their roots
union_args(u, a, b) ==
    LET u1 == add(add(u, a), b)
        fa == find(u1, a)
        fb == find(fa.uf, b)
        ra == fa.ret
        rb == fb.ret
        u2 == fb.uf
    IN  IF ra = rb THEN u2
        ELSE IF u2.rank[ra] < u2.rank[rb] THEN [u2 EXCEPT !.parent[a] = b]
        ELSE IF u2.rank[ra] > u2.rank[rb] THEN [u2 EXCEPT !.parent[b] = a]
        ELSE [u2 EXCEPT !.parent[b] = a, !.rank[ra] = @ + 1]

\* UnionFind.union
union(u, a, b) ==
    LET u1 == add(add(u, a), b)
        fa == find(u1, a)
        fb == find(fa.uf, b)
        ra == fa.ret
        rb == fb.ret
        u2 == fb.uf
    IN  IF ra = rb THEN u2
        ELSE IF u2.rank[ra] < u2.rank[rb] THEN [u2 EXCEPT !.parent[ra] = rb]
        ELSE IF u2.rank[ra] > u2.rank[rb] THEN [u2 EXCEPT !.parent[rb] = ra]
        ELSE [u2 EXCEPT !.parent[rb] = ra, !.rank[ra] = @ + 1]

\* UnionFind.items
items(u) == DOMAIN u.parent

\* no UnionFind has been used yet
UFIdle ==
    /\ uf = UnionFind
    /\ unions = {}

---------------------------------------------------------------------------
(* The lock file and the build processes *)

\* Build process p has pid p; pid 0 is a process that no longer exists and
\* ForeignPid a live process that is not one of the modelled builds.
Builds == 1..NumBuilds
ForeignPid == NumBuilds + 1

\* build_id: --build-id or a timestamp with the git sha; written next to the pid
BuildId(p) == 10 + p

NoLockFile == [exists |-> FALSE, creator |-> 0, pid |-> NULL, build_id |-> NULL]
\* a lock file left behind by a build that died without running its cleanup
StaleLockFile == [exists |-> TRUE, creator |-> 0, pid |-> 0, build_id |-> BuildId(0)]
\* a lock file of a live process outside the model
ForeignLockFile ==
    [exists |-> TRUE, creator |-> ForeignPid, pid |-> ForeignPid, build_id |-> BuildId(ForeignPid)]

LockIdle ==
    /\ lockFile = NoLockFile
    /\ lpc = [p \in Builds |-> "off"]
    /\ lpid = [p \in Builds |-> NULL]

---------------------------------------------------------------------------
(* main(): the state of one build before it starts *)

NoPreflight == [ran |-> FALSE, intra_pairs |-> 0, neighbor_upper |-> 0,
                estimate_pairs |-> 0, limit |-> 0]
NoManifest == [athyg_checksum |-> NULL, athyg_retrieved |-> NULL,
               athyg_has_retrieval |-> FALSE, nasa_sha |-> NULL,
               nasa_retrieved |-> NULL, nasa_has_retrieval |-> FALSE,
               manifest |-> << >>]
NoTable == [exists |-> FALSE, rows |-> << >>]

\* the decoded cursor of a response without next_cursor
NoCursor == [present |-> FALSE, sort |-> "", match_rank |-> NULL, dist |-> NULL,
             cool_rank |-> NULL, name |-> NULL, id |-> NULL]

\* no search request has been made
SearchIdle ==
    /\ search_db = {}
    /\ search_mode = ""
    /\ search_limit = 0
    /\ page_items = << >>
    /\ next_cursor = NoCursor
    /\ pages = << >>

\* _RUNNER_LOCK is not held
LockFree == [holder |-> << >>, rows |-> << >>]

\* no admin job has been requested
JobsIdle ==
    /\ admin_jobs = << >>
    /\ job_now = 0
    /\ runner_lock = LockFree
    /\ caller_pc = << >>
    /\ worker_pc = << >>
    /\ job_cfg = [max_running |-> 0, max_queued |-> 0]
    /\ launched = << >>
    /\ job_reply = ""

ApiIdle == SearchIdle /\ JobsIdle

BuildTablesIdle ==
    /\ gates = {}
    /\ man = NoManifest
    /\ stars = << >>
    /\ name_groups = << >>
    /\ proximity_enabled = FALSE
    /\ pre = NoPreflight
    /\ batch_size = 0
    /\ batch_idx = 0
    /\ pending = {}
    /\ pair_count = 0
    /\ emitted = {}
    /\ prox_groups = NoTable
    /\ system_groups = << >>
    /\ systems = << >>
    /\ planets = << >>

BuildIdle ==
    /\ pc = "off"
    /\ exit_reason = ""
    /\ fs = [final |-> FALSE, tmp |-> FALSE, made_tmp |-> FALSE, reports |-> {}]
    /\ BuildTablesIdle

---------------------------------------------------------------------------
(* morton3d: the spatial key encoder *)

\* Program constants; lengths in units of 1/16 ly
BITS_PER_AXIS == 21
MORTON_MAX_ABS_LY == 16000
MORTON_N == 2^BITS_PER_AXIS - 1

Abs(v) == IF v < 0 THEN 0 - v ELSE v

\* int(round((v + MORTON_MAX_ABS_LY) * MORTON_SCALE)) with MORTON_SCALE =
\* MORTON_N / (2 * MORTON_MAX_ABS_LY), then the clamp to [0, MORTON_N].  The product
\* (v + max) * N / (2 * max) is split as q * (N div d) + q * (N mod d) / d to stay
\* within 32-bit integers.  On the 1/16 ly grid the only exact tie is v = 0
\* (1048575.5), where the double product falls just below the tie and round() gives
\* 1048575: ties go down.
Quantize(v) ==
    LET q == v + MORTON_MAX_ABS_LY
        d == 2 * MORTON_MAX_ABS_LY
        n == q * (MORTON_N % d)
        fl == n \div d
        rounded == q * (MORTON_N \div d) + (IF 2 * (n % d) > d THEN fl + 1 ELSE fl)
    IN  IF rounded < 0 THEN 0
        ELSE IF rounded > MORTON_N THEN MORTON_N
        ELSE rounded

\* bit i of n
Bit(n, i) == (n \div 2^i) % 2

\* part1by2(xi) | part1by2(yi) | part1by2(zi), the three spread values OR'ed without
\* the shifts by one and two
Interleave_unshifted(xi, yi, zi) ==
    [k \in 1..(3 * BITS_PER_AXIS) |->
        LET i == (k - 1) \div 3
        IN  IF (k - 1) % 3 # 0 THEN 0
            ELSE IF Bit(xi, i) + Bit(yi, i) + Bit(zi, i) > 0 THEN 1 ELSE 0]

\* part1by2(xi) | (part1by2(yi) << 1) | (part1by2(zi) << 2): the key has
\* 3 * BITS_PER_AXIS bits and is kept as the sequence of its bits, key[k + 1] being
\* bit k, because it does not fit a 32-bit integer
Interleave(xi, yi, zi) ==
    [k \in 1..(3 * BITS_PER_AXIS) |->
        LET i == (k - 1) \div 3
            axis == (k - 1) % 3
        IN  IF axis = 0 THEN Bit(xi, i)
            ELSE IF axis = 1 THEN Bit(yi, i)
            ELSE Bit(zi, i)]

NoKey == << >>

\* morton3d with the domain test on the x axis only
morton3d_xonly(x, y, z) ==
    IF x = NULL \/ y = NULL \/ z = NULL
    THEN [called |-> TRUE, raised |-> FALSE, key |-> NoKey]
    ELSE IF Abs(x) > MORTON_MAX_ABS_LY
    THEN [called |-> TRUE, raised |-> TRUE, key |-> NoKey]
    ELSE [called |-> TRUE, raised |-> FALSE,
          key |-> Interleave(Quantize(x), Quantize(y), Quantize(z))]

\* morton3d: key = NoKey with raised = FALSE is the None result
morton3d(x, y, z) ==
    IF x = NULL \/ y = NULL \/ z = NULL
    THEN [called |-> TRUE, raised |-> FALSE, key |-> NoKey]
    ELSE IF Abs(x) > MORTON_MAX_ABS_LY \/ Abs(y) > MORTON_MAX_ABS_LY
               \/ Abs(z) > MORTON_MAX_ABS_LY
    THEN [called |-> TRUE, raised |-> TRUE, key |-> NoKey]
    ELSE [called |-> TRUE, raised |-> FALSE,
          key |-> Interleave(Quantize(x), Quantize(y), Quantize(z))]

NotEncoded == [called |-> FALSE, raised |-> FALSE, key |-> NoKey]

MortonIdle ==
    /\ coord = <<NULL, NULL, NULL>>
    /\ encoded = NotEncoded

\* Axis values given to the encoder: the domain bound, one grid step inside and
\* outside it on both sides, the origin, and None
AxisInputs ==
    {NULL, 0, MORTON_MAX_ABS_LY - 1, MORTON_MAX_ABS_LY, MORTON_MAX_ABS_LY + 1,
     1 - MORTON_MAX_ABS_LY, 0 - MORTON_MAX_ABS_LY, 0 - MORTON_MAX_ABS_LY - 1}

InitMorton ==
    /\ UFIdle
    /\ ApiIdle
    /\ BuildIdle
    /\ LockIdle
    /\ coord \in AxisInputs \X AxisInputs \X AxisInputs
    /\ encoded = NotEncoded

Encode ==
    /\ ~encoded.called
    /\ encoded' = morton3d(coord[1], coord[2], coord[3])
    /\ UNCHANGED <<coord, ufVars, lockVars, buildVars, apiVars>>

NextMorton == Encode

SpecMorton == InitMorton /\ [][NextMorton]_vars

NonNull(c) == c[1] # NULL /\ c[2] # NULL /\ c[3] # NULL
OutOfDomain(c) == \E i \in 1..3 : c[i] > MORTON_MAX_ABS_LY \/ c[i] < 0 - MORTON_MAX_ABS_LY

\* C5: encoding a non-null coordinate raises exactly when some axis lies strictly
\* outside [-bound, bound]; within the bound (the bound itself included) it returns a
\* full key, and an out-of-domain coordinate never yields a key.
C5_RaisesIffOutOfDomain ==
    (encoded.called /\ NonNull(coord)) =>
        /\ encoded.raised <=> OutOfDomain(coord)
        /\ ~OutOfDomain(coord) => Len(encoded.key) = 3 * BITS_PER_AXIS
        /\ OutOfDomain(coord) => encoded.key = NoKey

\* C5 witness: a coordinate out of the domain on the z axis only raised
C5_Witness ==
    /\ encoded.called /\ encoded.raised
    /\ coord[1] = MORTON_MAX_ABS_LY /\ coord[2] = 0 - MORTON_MAX_ABS_LY
    /\ coord[3] = 0 - MORTON_MAX_ABS_LY - 1

---------------------------------------------------------------------------
(* acquire_lock: the build lock file shared by concurrent ingest processes *)

\* a variant of ProcessExists for which os.kill(pid, 0) never raises ProcessLookupError
ProcessExists_always(pid) == TRUE

\* os.kill(pid, 0) does not raise ProcessLookupError
ProcessExists(pid) ==
    \/ pid = ForeignPid
    \/ pid \in Builds /\ lpc[pid] \notin {"failed", "exited"}

InitLock ==
    /\ UFIdle
    /\ ApiIdle
    /\ BuildIdle
    /\ MortonIdle
    /\ lockFile \in {NoLockFile, StaleLockFile, ForeignLockFile}
    /\ lpc = [p \in Builds |-> "start"]
    /\ lpid = [p \in Builds |-> NULL]

\* if lock_path.exists():
LockExists(p) ==
    /\ lpc[p] = "start"
    /\ lpc' = [lpc EXCEPT ![p] = IF lockFile.exists THEN "read" ELSE "open"]
    /\ UNCHANGED <<lockFile, lpid, ufVars, mortonVars, buildVars, apiVars>>

\* details = read_lock_details(); pid = parse_pid(details): a file that has vanished
\* or has no pid line yet gives None
LockRead(p) ==
    /\ lpc[p] = "read"
    /\ lpid' = [lpid EXCEPT ![p] = IF lockFile.exists THEN lockFile.pid ELSE NULL]
    /\ lpc' = [lpc EXCEPT ![p] = "probe"]
    /\ UNCHANGED <<lockFile, ufVars, mortonVars, buildVars, apiVars>>

\* os.kill(pid, 0): stale only on ProcessLookupError; otherwise SystemExit
LockProbe(p) ==
    /\ lpc[p] = "probe"
    /\ LET stale == lpid[p] # NULL /\ ~ProcessExists(lpid[p])
       IN  lpc' = [lpc EXCEPT ![p] = IF stale THEN "unlink" ELSE "failed"]
    /\ UNCHANGED <<lockFile, lpid, ufVars, mortonVars, buildVars, apiVars>>

\* lock_path.unlink(), FileNotFoundError ignored
LockUnlink(p) ==
    /\ lpc[p] = "unlink"
    /\ lockFile' = NoLockFile
    /\ lpc' = [lpc EXCEPT ![p] = "open"]
    /\ UNCHANGED <<lpid, ufVars, mortonVars, buildVars, apiVars>>

\* os.open(lock_path, O_CREAT | O_EXCL | O_WRONLY); FileExistsError -> SystemExit
LockOpen(p) ==
    /\ lpc[p] = "open"
    /\ IF lockFile.exists
       THEN /\ lpc' = [lpc EXCEPT ![p] = "failed"]
            /\ UNCHANGED lockFile
       ELSE /\ lockFile' = [exists |-> TRUE, creator |-> p, pid |-> NULL, build_id |-> NULL]
            /\ lpc' = [lpc EXCEPT ![p] = "write"]
    /\ UNCHANGED <<lpid, ufVars, mortonVars, buildVars, apiVars>>

\* handle.write(lock_info) through the descriptor opened above (the file this process
\* created, which the path may no longer name), then atexit.register(cleanup) and return
LockWrite(p) ==
    /\ lpc[p] = "write"
    /\ lockFile' = IF lockFile.exists /\ lockFile.creator = p
                   THEN [lockFile EXCEPT !.pid = p, !.build_id = BuildId(p)]
                   ELSE lockFile
    /\ lpc' = [lpc EXCEPT ![p] = "holding"]
    /\ UNCHANGED <<lpid, ufVars, mortonVars, buildVars, apiVars>>

\* SIGINT or SIGTERM while the build runs: handle_signal calls cleanup(), which unlinks
\* lock_path, and raises SystemExit; the atexit handler follows at interpreter exit
LockSignal(p) ==
    /\ lpc[p] = "holding"
    /\ lockFile' = NoLockFile
    /\ lpc' = [lpc EXCEPT ![p] = "signalled"]
    /\ UNCHANGED <<lpid, ufVars, mortonVars, buildVars, apiVars>>

\* an interpreter exit at which no handler unlinks the lock file
LockCleanup_keep(p) ==
    /\ lpc[p] \in {"holding", "signalled"}
    /\ lpc' = [lpc EXCEPT ![p] = "exited"]
    /\ UNCHANGED <<lockFile, lpid, ufVars, mortonVars, buildVars, apiVars>>

\* the build ends (completion, SystemExit or a handled signal): cleanup() unlinks lock_path
LockCleanup(p) ==
    /\ lpc[p] \in {"holding", "signalled"}
    /\ lockFile' = NoLockFile
    /\ lpc' = [lpc EXCEPT ![p] = "exited"]
    /\ UNCHANGED <<lpid, ufVars, mortonVars, buildVars, apiVars>>

NextLock ==
    \E p \in Builds :
        \/ LockExists(p)
        \/ LockRead(p)
        \/ LockProbe(p)
        \/ LockUnlink(p)
        \/ LockOpen(p)
        \/ LockWrite(p)
        \/ LockSignal(p)
        \/ LockCleanup(p)

SpecLock == InitLock /\ [][NextLock]_vars

\* C7: two builds never hold the build lock simultaneously: at most one process has
\* returned from acquire_lock and not yet exited.
C7_MutualExclusion ==
    Cardinality({p \in Builds : lpc[p] = "holding"}) <= 1

---------------------------------------------------------------------------
(* A client of UnionFind making arbitrary add / find / union calls *)

InitUF ==
    /\ UFIdle
    /\ ApiIdle
    /\ BuildIdle
    /\ LockIdle
    /\ MortonIdle

CallAdd ==
    \E x \in Elems :
        /\ uf' = add(uf, x)
        /\ UNCHANGED <<unions, lockVars, mortonVars, buildVars, apiVars>>

CallFind ==
    \E x \in Elems :
        /\ uf' = find(uf, x).uf
        /\ UNCHANGED <<unions, lockVars, mortonVars, buildVars, apiVars>>

CallUnion ==
    \E a \in Elems, b \in Elems :
        /\ Cardinality(unions \cup {<<a, b>>}) <= MaxUnions
        /\ uf' = union(uf, a, b)
        /\ unions' = unions \cup {<<a, b>>}
        /\ UNCHANGED <<lockVars, mortonVars, buildVars, apiVars>>

NextUF == CallAdd \/ CallFind \/ CallUnion

SpecUF == InitUF /\ [][NextUF]_vars

---------------------------------------------------------------------------
(* Connectivity through a set of pairs, computed without the union-find *)

RECURSIVE Reach(_, _)
Reach(S, E) ==
    LET T == S \cup {e[2] : e \in {d \in E : d[1] \in S}}
                \cup {e[1] : e \in {d \in E : d[2] \in S}}
    IN  IF T = S THEN S ELSE Reach(T, E)

Connected(a, b, E) == b \in Reach({a}, E)

\* find(a) == find(b), evaluated as two successive calls on the structure
SameSet(u, a, b) ==
    LET fa == find(u, a)
        fb == find(fa.uf, b)
    IN  fa.ret = fb.ret

\* C3: after any sequence of add, find and union calls, find(a) == find(b) exactly when
\* a and b are connected through the union calls made so far; find calls (which leave
\* the history of unions alone) therefore never change which elements share a set.
C3_FindIffConnected ==
    \A a \in Elems, b \in Elems :
        SameSet(uf, a, b) <=> Connected(a, b, unions)

\* C3 witness: union(a,b) and union(b,c) were made (in either argument order) with no
\* union of a and c, find(a) == find(c), and a path has been compressed: the set's
\* root has rank 2, so a two-link path was built, yet every element points at the root
C3_Witness ==
    /\ \E a \in Elems, b \in Elems, c \in Elems :
          /\ a # b /\ b # c /\ a # c
          /\ {<<a, b>>, <<b, a>>} \cap unions # {}
          /\ {<<b, c>>, <<c, b>>} \cap unions # {}
          /\ {<<a, c>>, <<c, a>>} \cap unions = {}
          /\ SameSet(uf, a, c)
    /\ \E r \in DOMAIN uf.parent :
          /\ uf.rank[r] = 2
          /\ \A x \in DOMAIN uf.parent : uf.parent[x] = r

\* The pairs of E as a sequence in ascending (a, b) order
RECURSIVE SortedPairs(_)
SortedPairs(E) ==
    IF E = {} THEN << >>
    ELSE LET m == CHOOSE p \in E :
                     \A q \in E : p[1] < q[1] \/ (p[1] = q[1] /\ p[2] <= q[2])
         IN  <<m>> \o SortedPairs(E \ {m})

\* A fresh UnionFind fed the pairs of a sequence by union, first to last
RECURSIVE FeedPairs(_, _)
FeedPairs(u, ps) ==
    IF ps = << >> THEN u
    ELSE FeedPairs(union(u, ps[1][1], ps[1][2]), Tail(ps))

\* C4: whatever order the union calls were made in, the partition is the one that
\* feeding the same set of pairs in ascending order to a fresh UnionFind gives:
\* the final partition depends on the set of pairs only, not on their order.
C4_OrderIndependent ==
    LET ref == FeedPairs(UnionFind, SortedPairs(unions))
    IN  \A a \in Elems, b \in Elems :
            SameSet(uf, a, b) <=> SameSet(ref, a, b)

\* C4 witness: three pairs were fed in an order other than the ascending one (a set's
\* root differs from the reference root) and joined at least three elements
C4_Witness ==
    /\ Cardinality(unions) = 3
    /\ \E x \in Elems :
          find(uf, x).ret # find(FeedPairs(UnionFind, SortedPairs(unions)), x).ret
    /\ \E a \in Elems, b \in Elems, c \in Elems :
          /\ a # b /\ b # c /\ a # c
          /\ SameSet(uf, a, b) /\ SameSet(uf, b, c)


---------------------------------------------------------------------------
(* main(): inputs of one build *)

\* the pid of the build whose main() is modelled
SelfPid == 1

\* Names are numbers standing for strings.  A proper name is
\* 100 * root + 10 * style + component: the root words, the way they are written
\* (case and punctuation; 0 is the normalized way) and the trailing one- or two-letter
\* token (0 when there is none).
ProperName(root, style, component) == 100 * root + 10 * style + component

\* A row of the cooked AT-HYG catalog, as the CTE "converted" of stars_stage_base
\* sees it: the proper name is the root written the normalized way without a
\* component.  dist_dev is |sqrt(x^2 + y^2 + z^2) - dist_ly| of the decimal values,
\* in units of 1e-4 ly; dist_err is what the same expression evaluated on the
\* doubles of the row adds to it, in units of 2^-62 / 1000 ly;
\* stable_object_key is set when the rows are put into a catalog.
Row(root, x, y, z, vmag) ==
    [proper |-> IF root = NULL THEN NULL ELSE ProperName(root, 0, 0),
     bayer |-> NULL, flam |-> NULL, con |-> NULL,
     hip_id |-> NULL, hd_id |-> NULL, gaia_id |-> NULL,
     x_helio_ly |-> x, y_helio_ly |-> y,
     z_helio_ly |-> z, vmag |-> vmag, dist_ly |-> 1, dist_dev |-> 0, dist_err |-> 0,
     source_pk |-> 1, stable_object_key |-> 0]

\* Rows that differ in what they offer for a name: a Bayer or Flamsteed designation
\* with or without the constellation, catalog ids, a proper name written another way
\* and with a component letter
NameRows ==
    {[Row(NULL, 0, 0, 0, 1) EXCEPT !.bayer = 1, !.con = 1, !.flam = 1, !.hip_id = 1],
     [Row(NULL, 0, 0, 0, 1) EXCEPT !.flam = 1, !.con = 1, !.hip_id = 1],
     [Row(NULL, 0, 0, 0, 1) EXCEPT !.bayer = 1, !.hip_id = 1, !.hd_id = 1],
     [Row(NULL, 0, 0, 0, 1) EXCEPT !.hd_id = 1, !.gaia_id = 1],
     [Row(NULL, 0, 0, 0, 1) EXCEPT !.gaia_id = 1],
     [Row(1, 0, 0, 0, 1) EXCEPT !.proper = ProperName(1, 1, 2), !.bayer = 1, !.con = 1]}

\* Stars with a name root (two roots, three magnitudes)
NamedRows ==
    {Row(1, 0, 0, 0, 2), Row(1, 3, 3, 3, 1), Row(2, 4, 4, 4, NULL)}

\* Stars without a name root.  Squared distances: (0,0,0)-(2,2,2) 12, (2,2,2)-(3,3,3) 3,
\* (0,0,0)-(3,3,3) 27 in one cell; (3,3,3)-(4,4,4) 3 and (2,2,2)-(4,4,4) 12 across the
\* cell corner; (-4,0,0)-(0,0,0) exactly 16 across a face; (-4,0,0)-(4,4,4) two cells apart.
UnnamedRows ==
    {Row(NULL, 0, 0, 0, NULL), Row(NULL, 2, 2, 2, 2), Row(NULL, 3, 3, 3, 1),
     Row(NULL, 4, 4, 4, 1), Row(NULL, 0 - 4, 0, 0, 2)}

PlainRows == NamedRows \cup UnnamedRows

\* Rows that trip a gate or a filter: out of the Morton domain, no coordinates, a
\* distance that disagrees with the coordinates, no source id, farther than the
\* domain bound, no distance at all.  The rows with dist_dev = 10 are (0, 0, 0) with
\* dist_ly 0.001, (5, 0, 0) ly with dist_ly 5.001 and (3, 0, 0) ly with dist_ly 3.001:
\* the doubles nearest to 0.001, 5.001 - 5 and 3.001 - 3 lie 96 and 1540096 units
\* above and 507904 units below 0.001.
FlawedRows ==
    {[Row(NULL, MORTON_MAX_ABS_LY + 1, 0, 0, 1) EXCEPT !.dist_dev = 625],
     [Row(1, 0, 0 - MORTON_MAX_ABS_LY - 1, 0, 1) EXCEPT !.dist_dev = 625],
     Row(NULL, NULL, NULL, NULL, 1),
     [Row(NULL, 0, 0, 0, 1) EXCEPT !.dist_dev = 11],
     [Row(NULL, 0, 0, 0, 1) EXCEPT !.dist_dev = 10, !.dist_err = 96],
     [Row(NULL, 80, 0, 0, 1) EXCEPT !.dist_dev = 10, !.dist_err = 1540096],
     [Row(NULL, 48, 0, 0, 1) EXCEPT !.dist_dev = 10, !.dist_err = 0 - 507904],
     [Row(1, NULL, 0, 0, 1) EXCEPT !.dist_dev = 625],
     [Row(1, 0, 0, 0, 1) EXCEPT !.source_pk = NULL],
     [Row(NULL, 0, 0, 0, 1) EXCEPT !.dist_ly = MORTON_MAX_ABS_LY + 1],
     [Row(NULL, NULL, NULL, NULL, 1) EXCEPT !.dist_ly = NULL]}

\* The rows in stable_object_key order: keys 1, 2, 3, ... or, with dup, 1, 1, 2, ...
\* (the first two rows share their key)
WithKeys(rows, dup) ==
    [i \in 1..Len(rows) |->
        [rows[i] EXCEPT !.stable_object_key = IF dup /\ i >= 2 THEN i - 1 ELSE i]]

SeqsUpTo(S, n) == UNION {[1..k -> S] : k \in 1..n}

\* The spec's end-to-end scenario: three stars of one name root and an unrelated star
ScenarioCatalog ==
    WithKeys(<<Row(1, 0, 0, 0, 2), Row(1, 0, 0, 0, 1), Row(1, 0, 0, 0, NULL),
               Row(NULL, 4, 4, 4, 1)>>, FALSE)

\* Catalogs: every sequence of up to MaxStars plain rows with distinct keys; sequences
\* over fewer kinds of row whose first two rows share a key; sequences led by a
\* flawed row; the scenario
Catalogs ==
    {WithKeys(r, FALSE) : r \in SeqsUpTo(PlainRows, MaxStars)}
    \cup {WithKeys(r, TRUE) :
            r \in {q \in SeqsUpTo({Row(1, 0, 0, 0, 2), Row(NULL, 0, 0, 0, NULL),
                                   Row(NULL, 3, 3, 3, 1), Row(NULL, 4, 4, 4, 1)},
                                  MaxStars) : Len(q) >= 2}}
    \cup {WithKeys(<<f>> \o r, FALSE) :
            f \in FlawedRows,
            r \in {<< >>} \cup SeqsUpTo({Row(1, 0, 0, 0, 2), Row(NULL, 0, 0, 0, NULL)},
                                        MaxStars - 1)}
    \cup {WithKeys(<<f>> \o r, FALSE) :
            f \in NameRows,
            r \in {<< >>} \cup SeqsUpTo({Row(1, 0, 0, 0, 2), Row(NULL, 0, 0, 0, NULL)},
                                        MaxStars - 1)}
    \cup {ScenarioCatalog}

\* Catalogs read by a build whose manifest lacks a sha256 somewhere
FewCatalogs ==
    {WithKeys(<<Row(1, 0, 0, 0, 2), Row(NULL, 0, 0, 0, NULL)>>, FALSE)}

\* A manifest entry; absent entries have present = FALSE
Entry(retrieved_at, sha256, etag) ==
    [present |-> TRUE, retrieved_at |-> retrieved_at, sha256 |-> sha256,
     etag |-> etag, retrieval_etag |-> NULL]
NoEntry ==
    [present |-> FALSE, retrieved_at |-> NULL, sha256 |-> NULL, etag |-> NULL,
     retrieval_etag |-> NULL]

\* Manifests, as [athyg_p1, athyg_p2, nasa]
ManifestInputs ==
    LET sha == Entry(1, 1, NULL)
        etag == Entry(1, NULL, 1)
        retr == [Entry(1, NULL, NULL) EXCEPT !.retrieval_etag = 1]
    IN  {<<sha, sha, sha>>, <<sha, etag, sha>>, <<etag, etag, sha>>, <<sha, sha, etag>>,
         <<retr, retr, sha>>,
         <<NoEntry, sha, sha>>, <<sha, Entry(NULL, 1, NULL), sha>>,
         <<sha, sha, Entry(1, NULL, NULL)>>}

\* Rows of the cooked NASA table, reduced to their source id
NasaInputs == {<<[source_pk |-> 1]>>, <<[source_pk |-> 1], [source_pk |-> NULL]>>}

\* PROX_PAIR_ESTIMATE_LIMIT and batch_size are literals of the program; the model also
\* runs it with small values of both so that the limit and the batching come into play
PROX_PAIR_ESTIMATE_LIMIT == 50000000
BATCH_SIZE == 5000
PairLimits == {1, PROX_PAIR_ESTIMATE_LIMIT}
BatchSizes == {1, 2, BATCH_SIZE}

---------------------------------------------------------------------------
(* main(): start-up *)

InitBuild ==
    /\ UFIdle
    /\ ApiIdle
    /\ MortonIdle
    /\ lpc = [p \in Builds |-> "off"]
    /\ lpid = [p \in Builds |-> NULL]
    /\ lockFile \in {NoLockFile, StaleLockFile, ForeignLockFile}
    /\ pc = "start"
    /\ exit_reason = ""
    /\ fs \in {[final |-> f, tmp |-> t, made_tmp |-> FALSE, reports |-> {}] :
                 f \in BOOLEAN, t \in BOOLEAN}
    /\ BuildTablesIdle

\* raise SystemExit(...)
Abort(reason) ==
    /\ pc' = "aborted"
    /\ exit_reason' = reason

\* an exception nothing catches
Crash(reason) ==
    /\ pc' = "crashed"
    /\ exit_reason' = reason

\* a variant of LockIsStale that takes every existing lock file for a stale one
LockIsStale_any(f) == f.exists

\* pid = parse_pid(details); os.kill(pid, 0): stale only on ProcessLookupError
LockIsStale(f) == f.exists /\ f.pid # NULL /\ ~ProcessExists(f.pid)

\* acquire_lock(lock_path, build_id), run by a build with no concurrent build; on
\* SystemExit lpid keeps the pid line of the details that the message quotes (on return
\* the details it read are discarded with the frame)
AcquireLock ==
    /\ pc = "start"
    /\ IF lockFile.exists /\ ~LockIsStale(lockFile)
       THEN /\ Abort("lock")
            /\ lpid' = [lpid EXCEPT ![SelfPid] = lockFile.pid]
            /\ UNCHANGED lockFile
       ELSE /\ lockFile' = [exists |-> TRUE, creator |-> SelfPid, pid |-> SelfPid,
                            build_id |-> BuildId(SelfPid)]
            /\ pc' = "locked"
            /\ UNCHANGED lpid
            /\ UNCHANGED exit_reason
    /\ UNCHANGED <<fs, gates, man, stars, name_groups, proximity_enabled, pre,
                   batch_size, batch_idx, pending, pair_count, emitted, prox_groups,
                   system_groups, systems, planets, ufVars, lpc, mortonVars, apiVars>>

\* final_out_dir / tmp_out_dir must not exist; then the mkdir calls
PrepareOutput ==
    /\ pc = "locked"
    /\ IF fs.final THEN Abort("final_exists") /\ UNCHANGED fs
       ELSE IF fs.tmp THEN Abort("tmp_exists") /\ UNCHANGED fs
       ELSE /\ fs' = [fs EXCEPT !.tmp = TRUE, !.made_tmp = TRUE]
            /\ pc' = "prepared"
            /\ UNCHANGED exit_reason
    /\ UNCHANGED <<gates, man, stars, name_groups, proximity_enabled, pre,
                   batch_size, batch_idx, pending, pair_count, emitted, prox_groups,
                   system_groups, systems, planets, ufVars, lockVars, mortonVars, apiVars>>

\* has_retrieval
has_retrieval(entry) ==
    entry.present /\ (entry.sha256 # NULL \/ entry.etag # NULL \/ entry.retrieval_etag # NULL)

\* a variant of require_manifest_entry without the checksum/etag test
require_manifest_entry_lax(entry) == entry.present /\ entry.retrieved_at # NULL

\* require_manifest_entry: TRUE when it returns the entry, FALSE when it raises SystemExit
require_manifest_entry(entry) ==
    /\ entry.present
    /\ entry.retrieved_at # NULL
    /\ ~(entry.sha256 = NULL /\ entry.etag = NULL /\ entry.retrieval_etag = NULL)

\* load_manifest, the three require_manifest_entry calls and the values derived from
\* the entries (a checksum or a timestamp is kept as 1 when it is a non-empty string)
LoadManifestEntries ==
    /\ pc = "prepared"
    /\ \E m \in ManifestInputs :
          IF \A i \in 1..3 : require_manifest_entry(m[i])
          THEN /\ man' = [athyg_checksum |->
                              IF m[1].sha256 # NULL \/ m[2].sha256 # NULL THEN 1 ELSE NULL,
                          athyg_retrieved |-> 1,
                          athyg_has_retrieval |-> has_retrieval(m[1]) \/ has_retrieval(m[2]),
                          nasa_sha |-> m[3].sha256,
                          nasa_retrieved |-> m[3].retrieved_at,
                          nasa_has_retrieval |-> has_retrieval(m[3]),
                          manifest |-> m]
               /\ gates' = gates \cup {"manifest"}
               /\ pc' = "manifest"
               /\ UNCHANGED exit_reason
          ELSE /\ Abort("manifest")
               /\ man' = [NoManifest EXCEPT !.manifest = m]
               /\ UNCHANGED gates
    /\ UNCHANGED <<fs, stars, name_groups, proximity_enabled, pre,
                   batch_size, batch_idx, pending, pair_count, emitted, prox_groups,
                   system_groups, systems, planets, ufVars, lockVars, mortonVars, apiVars>>

---------------------------------------------------------------------------
(* main(): the stars table and the name pass *)

\* the "filtered" CTE of stars_stage_base
filtered(r) == r.dist_ly # NULL /\ r.dist_ly <= MORTON_MAX_ABS_LY

\* greatest(abs(x), abs(y), abs(z)) > MORTON_MAX_ABS_LY for a row (NULLs are skipped)
ExceedsDomain(r) ==
    \/ r.x_helio_ly # NULL /\ Abs(r.x_helio_ly) > MORTON_MAX_ABS_LY
    \/ r.y_helio_ly # NULL /\ Abs(r.y_helio_ly) > MORTON_MAX_ABS_LY
    \/ r.z_helio_ly # NULL /\ Abs(r.z_helio_ly) > MORTON_MAX_ABS_LY

\* max_abs is not None and max_abs > MORTON_MAX_ABS_LY
DomainGateFails(stage) == \E i \in 1..Len(stage) : ExceedsDomain(stage[i])

\* CTE named: the case expression for star_name ('HIP ', 'HD ' and 'Gaia DR3 '
\* names and the designations are numbered apart from the proper names)
star_name(r) ==
    IF r.proper # NULL THEN r.proper
    ELSE IF r.bayer # NULL /\ r.con # NULL THEN 10000 + 100 * r.bayer + r.con
    ELSE IF r.flam # NULL /\ r.con # NULL THEN 20000 + 100 * r.flam + r.con
    ELSE IF r.hip_id # NULL THEN 30000 + r.hip_id
    ELSE IF r.hd_id # NULL THEN 40000 + r.hd_id
    ELSE IF r.gaia_id # NULL THEN 50000 + r.gaia_id
    ELSE NULL

\* CTE named: system_name_root, the proper name without its trailing one- or
\* two-letter token
system_name_root(r) ==
    IF r.proper # NULL THEN r.proper \div 10 ELSE NULL

\* CTE normalized: lower(trim(regexp_replace(...))) of a name root, which leaves the
\* words and drops the way they are written
system_name_root_norm(r) ==
    IF system_name_root(r) = NULL THEN NULL ELSE system_name_root(r) \div 10

\* create table stars ... row_number() over (order by stable_object_key), then the
\* update that fills the retrieval columns
StarsTable(stage) ==
    [i \in 1..Len(stage) |->
        [star_id |-> i,
         system_id |-> NULL,
         spatial_index |-> morton3d(stage[i].x_helio_ly, stage[i].y_helio_ly,
                                    stage[i].z_helio_ly).key,
         stable_object_key |-> stage[i].stable_object_key,
         star_name |-> star_name(stage[i]),
         system_name_root_norm |-> system_name_root_norm(stage[i]),
         proper |-> stage[i].proper,
         bayer |-> stage[i].bayer,
         flam |-> stage[i].flam,
         con |-> stage[i].con,
         hip_id |-> stage[i].hip_id,
         hd_id |-> stage[i].hd_id,
         gaia_id |-> stage[i].gaia_id,
         x_helio_ly |-> stage[i].x_helio_ly,
         y_helio_ly |-> stage[i].y_helio_ly,
         z_helio_ly |-> stage[i].z_helio_ly,
         vmag |-> stage[i].vmag,
         dist_dev |-> stage[i].dist_dev,
         dist_err |-> stage[i].dist_err,
         source_pk |-> stage[i].source_pk,
         retrieval_etag |-> NULL,
         retrieval_checksum |-> man.athyg_checksum,
         retrieved_at |-> man.athyg_retrieved]]

\* Reading the cooked catalog: the staging views, the Morton domain gate and the
\* stars table
LoadStars ==
    /\ pc = "manifest"
    /\ \E rows \in (IF man.athyg_checksum # NULL /\ man.nasa_sha # NULL
                    THEN Catalogs ELSE FewCatalogs) :
          LET stage == SelectSeq(rows, filtered)
          IN  IF DomainGateFails(stage)
              THEN /\ Abort("domain")
                   /\ UNCHANGED <<stars, gates>>
              ELSE /\ stars' = StarsTable(stage)
                   /\ gates' = gates \cup {"domain"}
                   /\ pc' = "stars"
                   /\ UNCHANGED exit_reason
    /\ UNCHANGED <<fs, man, name_groups, proximity_enabled, pre,
                   batch_size, batch_idx, pending, pair_count, emitted, prox_groups,
                   system_groups, systems, planets, ufVars, lockVars, mortonVars, apiVars>>

\* a variant of the filter that lets every star through
IsUnnamed_all(s) == TRUE

\* where system_name_root_norm is null
IsUnnamed(s) == s.system_name_root_norm = NULL
IsNamed(s) == s.system_name_root_norm # NULL

\* create temp table name_groups
NameGroupsTable(st) ==
    LET named == SelectSeq(st, IsNamed)
    IN  [i \in 1..Len(named) |->
            [star_id |-> named[i].star_id,
             system_group_key |-> <<"name", named[i].system_name_root_norm>>]]

\* The name pass, and the read of SPACEGATE_ENABLE_PROXIMITY
NameGroups ==
    /\ pc = "stars"
    /\ name_groups' = NameGroupsTable(stars)
    /\ \E e \in BOOLEAN : proximity_enabled' = e
    /\ pc' = "named"
    /\ UNCHANGED <<exit_reason, fs, gates, man, stars, pre,
                   batch_size, batch_idx, pending, pair_count, emitted, prox_groups,
                   system_groups, systems, planets, ufVars, lockVars, mortonVars, apiVars>>

\* prox_eligible = total_stars - name_grouped
prox_eligible == Len(stars) - Len(name_groups)

---------------------------------------------------------------------------
(* main(): the proximity pass *)

\* Program constants, in units of 1/16 ly
PROX_MAX_DIST_LY == 4
PROX_CELL_SIZE_LY == 4

\* view ungrouped_cells
ungrouped_cells ==
    LET u == SelectSeq(stars, IsUnnamed)
    IN  [i \in 1..Len(u) |->
            [star_id |-> u[i].star_id,
             x |-> u[i].x_helio_ly, y |-> u[i].y_helio_ly, z |-> u[i].z_helio_ly,
             cell |-> IF u[i].x_helio_ly = NULL \/ u[i].y_helio_ly = NULL
                         \/ u[i].z_helio_ly = NULL
                      THEN <<NULL, NULL, NULL>>
                      ELSE <<u[i].x_helio_ly \div PROX_CELL_SIZE_LY,
                             u[i].y_helio_ly \div PROX_CELL_SIZE_LY,
                             u[i].z_helio_ly \div PROX_CELL_SIZE_LY>>]]

\* the 27 offsets in the order the program lists them
OffsetList ==
    [i \in 1..27 |-> <<((i - 1) \div 9) - 1, (((i - 1) \div 3) % 3) - 1, ((i - 1) % 3) - 1>>]

\* the pairing query's table without the diagonal offsets
neighbor_offsets_faces ==
    SelectSeq(OffsetList, LAMBDA o : Abs(o[1]) + Abs(o[2]) + Abs(o[3]) <= 1)

\* temp table neighbor_offsets(dx, dy, dz)
neighbor_offsets == OffsetList

\* the preflight's list without the offsets that move along two or three axes
offsets_faces ==
    SelectSeq(OffsetList, LAMBDA o : Abs(o[1]) + Abs(o[2]) + Abs(o[3]) < 2)

\* the Python list offsets of the preflight
offsets == OffsetList

RECURSIVE SumSeq(_)
SumSeq(q) == IF q = << >> THEN 0 ELSE q[1] + SumSeq(Tail(q))

CellLess(c, d) ==
    \/ c[1] < d[1]
    \/ c[1] = d[1] /\ c[2] < d[2]
    \/ c[1] = d[1] /\ c[2] = d[2] /\ c[3] < d[3]

\* sorted(cell_counts.keys())
RECURSIVE SortCells(_)
SortCells(S) ==
    IF S = {} THEN << >>
    ELSE LET m == CHOOSE c \in S : \A d \in S \ {c} : CellLess(c, d)
         IN  <<m>> \o SortCells(S \ {m})

\* cell_counts: select cell_x, cell_y, cell_z, count(*) from ungrouped_cells group by 1, 2, 3
cell_counts ==
    LET uc == ungrouped_cells
        keys == {uc[i].cell : i \in 1..Len(uc)}
    IN  [c \in keys |-> Cardinality({i \in 1..Len(uc) : uc[i].cell = c})]

cells == SortCells(DOMAIN cell_counts)

\* cell_counts.get(c, 0)
CellCountGet(c) == IF c \in DOMAIN cell_counts THEN cell_counts[c] ELSE 0

Max(a, b) == IF a >= b THEN a ELSE b

\* intra_pairs: sum of cnt * (cnt - 1) // 2 over the cells
intra_pairs ==
    SumSeq([i \in 1..Len(cells) |->
              (cell_counts[cells[i]] * (cell_counts[cells[i]] - 1)) \div 2])

\* neighbor_upper_raw without the subtraction of the star itself
neighbor_upper_self ==
    LET neighbor_sum(c) ==
            SumSeq([k \in 1..Len(offsets) |->
                      CellCountGet(<<c[1] + offsets[k][1], c[2] + offsets[k][2],
                                     c[3] + offsets[k][3]>>)])
        neighbor_upper_raw ==
            SumSeq([i \in 1..Len(cells) |-> cell_counts[cells[i]] * neighbor_sum(cells[i])])
    IN  neighbor_upper_raw \div 2

\* neighbor_upper: neighbor_upper_raw // 2
neighbor_upper ==
    LET neighbor_sum(c) ==
            SumSeq([k \in 1..Len(offsets) |->
                      CellCountGet(<<c[1] + offsets[k][1], c[2] + offsets[k][2],
                                     c[3] + offsets[k][3]>>)])
        neighbor_upper_raw ==
            SumSeq([i \in 1..Len(cells) |->
                      cell_counts[cells[i]] * Max(neighbor_sum(cells[i]) - 1, 0)])
    IN  neighbor_upper_raw \div 2

\* a limit check that also stops an estimate equal to the limit
PreflightFails_ge(estimate_pairs, limit) == estimate_pairs >= limit

\* if estimate_pairs > PROX_PAIR_ESTIMATE_LIMIT: raise SystemExit(...)
PreflightFails(estimate_pairs, limit) == estimate_pairs > limit

\* int(cx) of a NULL cell coordinate raises TypeError
HasNullCell ==
    \E i \in 1..Len(ungrouped_cells) : ungrouped_cells[i].cell = <<NULL, NULL, NULL>>

\* The preflight: cell counts, the two estimates and the limit; then uf = UnionFind()
\* and the sorted cells
Preflight ==
    /\ pc = "named"
    /\ proximity_enabled /\ prox_eligible > 0
    /\ IF HasNullCell
       THEN /\ Crash("null_cell")
            /\ UNCHANGED <<pre, uf, batch_size>>
       ELSE \E limit \in PairLimits :
              LET estimate_pairs == Max(intra_pairs, neighbor_upper)
              IN  /\ pre' = [ran |-> TRUE, intra_pairs |-> intra_pairs,
                             neighbor_upper |-> neighbor_upper,
                             estimate_pairs |-> estimate_pairs, limit |-> limit]
                  /\ IF PreflightFails(estimate_pairs, limit)
                     THEN /\ Abort("preflight")
                          /\ UNCHANGED <<uf, batch_size>>
                     ELSE /\ uf' = UnionFind
                          /\ \E bs \in BatchSizes : batch_size' = bs
                          /\ pc' = "pairing"
                          /\ UNCHANGED exit_reason
    /\ UNCHANGED <<fs, gates, man, stars, name_groups, proximity_enabled,
                   batch_idx, pending, pair_count, emitted, prox_groups,
                   system_groups, systems, planets, unions, lockVars, mortonVars, apiVars>>

\* (a.x - b.x)^2 + (a.y - b.y)^2 + (a.z - b.z)^2
Dist2(a, b) ==
    (a.x - b.x) * (a.x - b.x) + (a.y - b.y) * (a.y - b.y) + (a.z - b.z) * (a.z - b.z)

Min(a, b) == IF a <= b THEN a ELSE b

\* batch = cells[idx : idx + batch_size]
BatchCells(idx) == SubSeq(cells, idx + 1, Min(idx + batch_size, Len(cells)))

\* pair_query over the batch: one row <<a.star_id, b.star_id, offset>> for every
\* combination of rows of ungrouped_cells a, batch_cells, neighbor_offsets and
\* ungrouped_cells b that satisfies the join and where conditions
PairQuery(batch) ==
    LET uc == ungrouped_cells
        bc == {batch[n] : n \in 1..Len(batch)}
        hit(i, j, k) ==
            /\ uc[i].cell \in bc
            /\ uc[j].cell = <<uc[i].cell[1] + neighbor_offsets[k][1],
                              uc[i].cell[2] + neighbor_offsets[k][2],
                              uc[i].cell[3] + neighbor_offsets[k][3]>>
            /\ uc[i].star_id < uc[j].star_id
            /\ Dist2(uc[i], uc[j]) <= PROX_MAX_DIST_LY * PROX_MAX_DIST_LY
    IN  {<<uc[t[1]].star_id, uc[t[2]].star_id, t[3]>> :
            t \in {u \in (1..Len(uc)) \X (1..Len(uc)) \X (1..Len(neighbor_offsets)) :
                     hit(u[1], u[2], u[3])}}

\* One turn of the loop over the batches up to the first fetchmany: the batch_cells
\* table and the pairing query
FetchBatch ==
    /\ pc = "pairing"
    /\ pending = {}
    /\ batch_idx < Len(cells)
    /\ LET rows == PairQuery(BatchCells(batch_idx))
       IN  /\ emitted' = emitted \cup {<<t[1], t[2], t[3], batch_idx>> : t \in rows}
           /\ pending' = rows
           /\ batch_idx' = IF rows = {} THEN batch_idx + batch_size ELSE batch_idx
    /\ UNCHANGED <<pc, exit_reason, fs, gates, man, stars, name_groups,
                   proximity_enabled, pre, batch_size, pair_count, prox_groups,
                   system_groups, systems, planets, ufVars, lockVars, mortonVars, apiVars>>

\* uf.union(a_id, b_id) for one fetched pair, in whatever order the query returned
\* them; after the last one pair_count += len(batch_pairs) and the loop moves on
UnionPair ==
    /\ pc = "pairing"
    /\ pending # {}
    /\ \E t \in pending :
          /\ uf' = union(uf, t[1], t[2])
          /\ unions' = unions \cup {<<t[1], t[2]>>}
          /\ pending' = pending \ {t}
          /\ IF pending' = {}
             THEN /\ pair_count' =
                        pair_count + Cardinality({e \in emitted : e[4] = batch_idx})
                  /\ batch_idx' = batch_idx + batch_size
             ELSE UNCHANGED <<pair_count, batch_idx>>
    /\ UNCHANGED <<pc, exit_reason, fs, gates, man, stars, name_groups,
                   proximity_enabled, pre, batch_size, emitted, prox_groups,
                   system_groups, systems, planets, lockVars, mortonVars, apiVars>>

\* uf.find(star_id) for every star_id of a list, keeping the compressed instance
RECURSIVE FindAll(_, _)
FindAll(u, ids) ==
    IF ids = {} THEN u
    ELSE LET x == CHOOSE y \in ids : \A w \in ids : y <= w
         IN  FindAll(find(u, x).uf, ids \ {x})

\* v before w in "order by vmag asc nulls last"
VmagBefore(v, w) == v # NULL /\ (w = NULL \/ v < w)

\* an ordering by stable_object_key and star_id that leaves vmag out
ProxPrimaryBefore_key(s, t) ==
    \/ s.stable_object_key < t.stable_object_key
    \/ s.stable_object_key = t.stable_object_key /\ s.star_id < t.star_id

\* s before t in "order by vmag asc nulls last, stable_object_key asc, star_id asc"
ProxPrimaryBefore(s, t) ==
    \/ VmagBefore(s.vmag, t.vmag)
    \/ s.vmag = t.vmag /\ s.stable_object_key < t.stable_object_key
    \/ s.vmag = t.vmag /\ s.stable_object_key = t.stable_object_key
       /\ s.star_id < t.star_id

\* view prox_roots_full over table prox_roots: coalesce(p.root_id, u.star_id)
prox_roots_full(u) ==
    LET un == SelectSeq(stars, IsUnnamed)
    IN  [i \in 1..Len(un) |->
            [star_id |-> un[i].star_id,
             root_id |-> IF un[i].star_id \in items(u)
                         THEN find(u, un[i].star_id).ret ELSE un[i].star_id]]

\* view prox_primary: the stable_object_key of the rn = 1 star of a root
prox_primary(u, root) ==
    LET pr == prox_roots_full(u)
        members == {stars[pr[i].star_id] : i \in {j \in 1..Len(pr) : pr[j].root_id = root}}
        first == CHOOSE s \in members : \A t \in members \ {s} : ProxPrimaryBefore(s, t)
    IN  first.stable_object_key

\* The end of the proximity pass: prox_roots, prox_roots_full, prox_primary and
\* the prox_groups table
BuildProxGroups ==
    /\ pc = "pairing"
    /\ pending = {}
    /\ batch_idx >= Len(cells)
    /\ uf' = FindAll(uf, items(uf))
    /\ LET pr == prox_roots_full(uf)
       IN  prox_groups' =
               [exists |-> TRUE,
                rows |-> [i \in 1..Len(pr) |->
                            [star_id |-> pr[i].star_id,
                             system_group_key |->
                                 <<"prox", prox_primary(uf, pr[i].root_id)>>]]]
    /\ pc' = "grouping"
    /\ UNCHANGED <<exit_reason, fs, gates, man, stars, name_groups,
                   proximity_enabled, pre, batch_size, batch_idx, pending, pair_count,
                   emitted, system_groups, systems, planets, unions, lockVars,
                   mortonVars, apiVars>>

---------------------------------------------------------------------------
(* main(): membership, coverage gate, systems *)

\* select star_id, 'solo:' || stable_object_key ... where system_name_root_norm is null
SoloRows ==
    LET un == SelectSeq(stars, IsUnnamed)
    IN  [i \in 1..Len(un) |->
            [star_id |-> un[i].star_id,
             system_group_key |-> <<"solo", un[i].stable_object_key>>]]

\* the membership table without the stars that have no name root
SystemGroupsRows_named == name_groups

\* create temp table system_groups: name_groups union all prox_groups, or
\* name_groups union all the solo rows
SystemGroupsRows ==
    IF proximity_enabled THEN name_groups \o prox_groups.rows
    ELSE name_groups \o SoloRows

\* The membership table; with proximity enabled and no prox_groups table the
\* select fails
BuildSystemGroups ==
    /\ \/ pc = "grouping"
       \/ pc = "named" /\ ~(proximity_enabled /\ prox_eligible > 0)
    /\ IF proximity_enabled /\ ~prox_groups.exists
       THEN /\ Crash("no_prox_groups")
            /\ UNCHANGED system_groups
       ELSE /\ system_groups' = SystemGroupsRows
            /\ pc' = "groups"
            /\ UNCHANGED exit_reason
    /\ UNCHANGED <<fs, gates, man, stars, name_groups, proximity_enabled, pre,
                   batch_size, batch_idx, pending, pair_count, emitted, prox_groups,
                   systems, planets, ufVars, lockVars, mortonVars, apiVars>>

\* group_counts: (total, grouped, dupes)
group_counts ==
    <<Len(stars), Len(system_groups),
      Cardinality({id \in {system_groups[i].star_id : i \in 1..Len(system_groups)} :
                     Cardinality({i \in 1..Len(system_groups) :
                                    system_groups[i].star_id = id}) > 1})>>

\* The coverage gate
CoverageGate ==
    /\ pc = "groups"
    /\ IF group_counts[2] # group_counts[1] \/ group_counts[3] # 0
       THEN /\ Abort("coverage")
            /\ UNCHANGED gates
       ELSE /\ gates' = gates \cup {"coverage"}
            /\ pc' = "covered"
            /\ UNCHANGED exit_reason
    /\ UNCHANGED <<fs, man, stars, name_groups, proximity_enabled, pre,
                   batch_size, batch_idx, pending, pair_count, emitted, prox_groups,
                   system_groups, systems, planets, ufVars, lockVars, mortonVars, apiVars>>

\* k before l in "order by system_group_key": 'name:' < 'prox:' < 'solo:'
KindRank(kind) == IF kind = "name" THEN 1 ELSE IF kind = "prox" THEN 2 ELSE 3
KeyBefore(k, l) ==
    \/ KindRank(k[1]) < KindRank(l[1])
    \/ k[1] = l[1] /\ k[2] < l[2]

RECURSIVE SortKeys(_)
SortKeys(S) ==
    IF S = {} THEN << >>
    ELSE LET m == CHOOSE k \in S : \A l \in S \ {k} : KeyBefore(k, l)
         IN  <<m>> \o SortKeys(S \ {m})

\* the distinct system_group_key values, in system_id order
GroupKeys == SortKeys({system_groups[i].system_group_key : i \in 1..Len(system_groups)})

\* CTE grouped: the stars rows of one system_group_key (one per membership row)
Grouped(key) ==
    {system_groups[i].star_id :
        i \in {j \in 1..Len(system_groups) : system_groups[j].system_group_key = key}}

\* s before t in "order by vmag asc nulls last, stable_object_key asc"
PrimaryBefore(s, t) ==
    \/ VmagBefore(s.vmag, t.vmag)
    \/ s.vmag = t.vmag /\ s.stable_object_key < t.stable_object_key

\* the case expression that rewrites the prefix 'star:' of a stable key to 'system:'
SystemKey(k) == <<"system", k>>

\* a selection that takes any member of the partition
PrimaryCandidates_any(key) == Grouped(key)

\* CTE primary_star: the star ids that row_number() may number 1 in a partition
PrimaryCandidates(key) ==
    {id \in Grouped(key) : \A o \in Grouped(key) : ~PrimaryBefore(stars[o], stars[id])}

\* a systems table with a row for every membership row instead of one per key
SystemsTable_perstar(prim) ==
    [i \in 1..Len(system_groups) |->
        [system_id |-> i,
         system_group_key |-> system_groups[i].system_group_key,
         primary_star_id |-> system_groups[i].star_id,
         spatial_index |-> stars[system_groups[i].star_id].spatial_index,
         stable_object_key |->
             SystemKey(stars[system_groups[i].star_id].stable_object_key),
         x_helio_ly |-> stars[system_groups[i].star_id].x_helio_ly,
         y_helio_ly |-> stars[system_groups[i].star_id].y_helio_ly,
         z_helio_ly |-> stars[system_groups[i].star_id].z_helio_ly,
         dist_dev |-> stars[system_groups[i].star_id].dist_dev,
         dist_err |-> stars[system_groups[i].star_id].dist_err,
         source_pk |-> stars[system_groups[i].star_id].source_pk,
         retrieval_etag |-> NULL,
         retrieval_checksum |-> man.athyg_checksum,
         retrieved_at |-> man.athyg_retrieved]]

\* create table systems, given the rn = 1 star of every key, and the update that
\* fills the retrieval columns
SystemsTable(prim) ==
    [i \in 1..Len(GroupKeys) |->
        [system_id |-> i,
         system_group_key |-> GroupKeys[i],
         primary_star_id |-> prim[i],
         spatial_index |-> stars[prim[i]].spatial_index,
         stable_object_key |-> SystemKey(stars[prim[i]].stable_object_key),
         x_helio_ly |-> stars[prim[i]].x_helio_ly,
         y_helio_ly |-> stars[prim[i]].y_helio_ly,
         z_helio_ly |-> stars[prim[i]].z_helio_ly,
         dist_dev |-> stars[prim[i]].dist_dev,
         dist_err |-> stars[prim[i]].dist_err,
         source_pk |-> stars[prim[i]].source_pk,
         retrieval_etag |-> NULL,
         retrieval_checksum |-> man.athyg_checksum,
         retrieved_at |-> man.athyg_retrieved]]

\* update stars set system_id = systems.system_id from system_groups join systems
\* using (system_group_key) where stars.star_id = system_groups.star_id; a star with
\* several matching rows gets one of them, a star with none keeps its NULL
StarsWithSystemId(sys, pick) ==
    [i \in 1..Len(stars) |->
        LET ids == {sys[n].system_id :
                      n \in {m \in 1..Len(sys) :
                               \E j \in 1..Len(system_groups) :
                                  /\ system_groups[j].star_id = stars[i].star_id
                                  /\ system_groups[j].system_group_key
                                       = sys[m].system_group_key}}
        IN  [stars[i] EXCEPT !.system_id =
                IF ids = {} THEN NULL
                ELSE IF pick THEN CHOOSE a \in ids : \A b \in ids : a <= b
                ELSE CHOOSE a \in ids : \A b \in ids : a >= b]]

\* The systems table and the system_id of every star
BuildSystems ==
    /\ pc = "covered"
    /\ \E prim \in [1..Len(GroupKeys) -> 1..Len(stars)], pick \in BOOLEAN :
          /\ \A i \in 1..Len(GroupKeys) : prim[i] \in PrimaryCandidates(GroupKeys[i])
          /\ systems' = SystemsTable(prim)
          /\ stars' = StarsWithSystemId(SystemsTable(prim), pick)
    /\ pc' = "systems"
    /\ UNCHANGED <<exit_reason, fs, gates, man, name_groups, proximity_enabled, pre,
                   batch_size, batch_idx, pending, pair_count, emitted, prox_groups,
                   system_groups, planets, ufVars, lockVars, mortonVars, apiVars>>

\* The grouping report, then the drops of system_group_key, system_groups and the
\* name root columns
WriteGroupingReport ==
    /\ pc = "systems"
    /\ fs' = [fs EXCEPT !.reports = @ \cup {"system_grouping_report"}]
    /\ systems' = [i \in 1..Len(systems) |->
                      [f \in DOMAIN systems[i] \ {"system_group_key"} |-> systems[i][f]]]
    /\ system_groups' = << >>
    /\ stars' = [i \in 1..Len(stars) |->
                    [f \in DOMAIN stars[i] \ {"system_name_root_norm"} |-> stars[i][f]]]
    /\ pc' = "reported"
    /\ UNCHANGED <<exit_reason, gates, man, name_groups, proximity_enabled, pre,
                   batch_size, batch_idx, pending, pair_count, emitted, prox_groups,
                   planets, ufVars, lockVars, mortonVars, apiVars>>

---------------------------------------------------------------------------
(* main(): planets, provenance gate, QC, promotion *)

\* create table planets and the update that fills the retrieval columns
PlanetsTable(nasa) ==
    [i \in 1..Len(nasa) |->
        [planet_id |-> i,
         source_pk |-> nasa[i].source_pk,
         retrieval_etag |-> NULL,
         retrieval_checksum |-> man.nasa_sha,
         retrieved_at |-> man.nasa_retrieved]]

\* failures of one row in table_provenance_report: required_text (retrieved_at is
\* the one that can be NULL), required_numeric, count_row_id_or_hash_missing
\* (source_row_id is source_pk, source_row_hash is NULL), count_retrieval_missing
RowFailures(r, require_retrieval) ==
    (IF r.retrieved_at = NULL THEN 1 ELSE 0)
    + (IF r.source_pk = NULL THEN 2 ELSE 0)
    + (IF r.retrieval_etag = NULL /\ r.retrieval_checksum = NULL /\ require_retrieval
       THEN 1 ELSE 0)

\* table_provenance_report(table, require_retrieval)["failures"]
table_provenance_report(rows, require_retrieval) ==
    SumSeq([i \in 1..Len(rows) |-> RowFailures(rows[i], require_retrieval)])

\* total_failures over stars, systems and planets
total_failures(pl) ==
    table_provenance_report(stars, man.athyg_has_retrieval)
    + table_provenance_report(systems, man.athyg_has_retrieval)
    + table_provenance_report(pl, man.nasa_has_retrieval)

\* The planets table, the provenance report and the provenance gate
ProvenanceGate ==
    /\ pc = "reported"
    /\ \E nasa \in NasaInputs :
          /\ planets' = PlanetsTable(nasa)
          /\ fs' = [fs EXCEPT !.reports = @ \cup {"provenance_report"}]
          /\ IF total_failures(PlanetsTable(nasa)) > 0
             THEN /\ Abort("provenance")
                  /\ UNCHANGED gates
             ELSE /\ gates' = gates \cup {"provenance"}
                  /\ pc' = "provenance_ok"
                  /\ UNCHANGED exit_reason
    /\ UNCHANGED <<man, stars, name_groups, proximity_enabled, pre,
                   batch_size, batch_idx, pending, pair_count, emitted, prox_groups,
                   system_groups, systems, ufVars, lockVars, mortonVars, apiVars>>

\* the tolerance 1e-3 of the distance invariant, in units of 1e-4 ly
DIST_TOLERANCE == 10

\* what the double 1e-3 lies above 0.001, in units of 2^-62 / 1000 ly
DIST_TOLERANCE_ERR == 96

\* abs(sqrt(x*x + y*y + z*z) - dist_ly) > 1e-3, evaluated on doubles
ExceedsTolerance(r) ==
    \/ r.dist_dev > DIST_TOLERANCE
    \/ r.dist_dev = DIST_TOLERANCE /\ r.dist_err > DIST_TOLERANCE_ERR

\* rows "where dist_ly is not null and x, y, z are not null and abs(...) > 1e-3";
\* dist_ly is not null for every row that passed the staging filter
dist_violations(rows) ==
    Cardinality({i \in 1..Len(rows) :
                   /\ rows[i].x_helio_ly # NULL /\ rows[i].y_helio_ly # NULL
                   /\ rows[i].z_helio_ly # NULL
                   /\ ExceedsTolerance(rows[i])})

\* The QC checks, qc_report and match_report, and the distance-invariant gate
QcGate ==
    /\ pc = "provenance_ok"
    /\ fs' = [fs EXCEPT !.reports = @ \cup {"qc_report", "match_report"}]
    /\ IF dist_violations(stars) + dist_violations(systems) > 0
       THEN /\ Abort("distance")
            /\ UNCHANGED gates
       ELSE /\ gates' = gates \cup {"distance"}
            /\ pc' = "qc_ok"
            /\ UNCHANGED exit_reason
    /\ UNCHANGED <<man, stars, name_groups, proximity_enabled, pre,
                   batch_size, batch_idx, pending, pair_count, emitted, prox_groups,
                   system_groups, systems, planets, ufVars, lockVars, mortonVars, apiVars>>

\* a promotion that happens whatever the run has reached
PromoteReady_always == pc \in {"prepared", "manifest", "stars", "provenance_ok", "qc_ok"}

\* the statement tmp_out_dir.rename(final_out_dir) is reached
PromoteReady == pc = "qc_ok"

\* The Parquet exports and tmp_out_dir.rename(final_out_dir)
Promote ==
    /\ PromoteReady
    /\ fs' = [fs EXCEPT !.tmp = FALSE, !.final = TRUE]
    /\ pc' = "done"
    /\ UNCHANGED <<exit_reason, gates, man, stars, name_groups, proximity_enabled, pre,
                   batch_size, batch_idx, pending, pair_count, emitted, prox_groups,
                   system_groups, systems, planets, ufVars, lockVars, mortonVars, apiVars>>

\* Interpreter exit: cleanup() registered by acquire_lock unlinks the lock file
Exit ==
    /\ pc \in {"aborted", "crashed", "done"}
    /\ pc' = "exited"
    /\ lockFile' = IF exit_reason = "lock" THEN lockFile ELSE NoLockFile
    /\ UNCHANGED <<exit_reason, fs, gates, man, stars, name_groups, proximity_enabled,
                   pre, batch_size, batch_idx, pending, pair_count, emitted,
                   prox_groups, system_groups, systems, planets, ufVars, lpc, lpid,
                   mortonVars, apiVars>>

NextBuild ==
    \/ AcquireLock
    \/ PrepareOutput
    \/ LoadManifestEntries
    \/ LoadStars
    \/ NameGroups
    \/ Preflight
    \/ FetchBatch
    \/ UnionPair
    \/ BuildProxGroups
    \/ BuildSystemGroups
    \/ CoverageGate
    \/ BuildSystems
    \/ WriteGroupingReport
    \/ ProvenanceGate
    \/ QcGate
    \/ Promote
    \/ Exit

Spec == InitBuild /\ [][NextBuild]_vars

---------------------------------------------------------------------------
(* Claims about one build *)

\* the membership rows of a star
Memberships(id) == {j \in 1..Len(system_groups) : system_groups[j].star_id = id}

\* C1: after the grouping step, with proximity disabled or enabled, every star of
\* the stars table has exactly one (star, group key) membership row: there are as
\* many membership rows as stars and no star id is in two groups.
C1_OneMembershipPerStar ==
    pc = "groups" =>
        /\ Len(system_groups) = Len(stars)
        /\ \A i \in 1..Len(stars) : Cardinality(Memberships(stars[i].star_id)) = 1

\* Grouping is done for a catalog with named and unnamed stars, proximity enabled,
\* and a proximity pair was united
C1_Witness ==
    /\ pc = "groups"
    /\ proximity_enabled
    /\ Len(stars) >= 3
    /\ Len(name_groups) >= 1
    /\ pair_count >= 1
    /\ \E i, j \in 1..Len(system_groups) :
          i # j /\ system_groups[i].system_group_key = system_groups[j].system_group_key

\* C2: the preflight estimate max(intra_pairs, neighbor_upper) is at least the number
\* of pairs the batched join emits over all batches, the value accumulated in
\* pair_count.
C2_EstimateCoversPairs ==
    pre.ran =>
        /\ pre.estimate_pairs = Max(pre.intra_pairs, pre.neighbor_upper)
        /\ pre.estimate_pairs >= pair_count
        /\ pre.estimate_pairs >= Cardinality(emitted)

\* The pairing loop has ended after several batches, pairs were emitted within a cell
\* and across a cell corner, and the estimate is exactly the number of pairs
C2_Witness ==
    /\ pc = "grouping"
    /\ batch_size < Len(cells)
    /\ pair_count >= 3
    /\ pre.estimate_pairs = pair_count
    /\ pre.intra_pairs < pair_count

AllGates == {"manifest", "domain", "coverage", "provenance", "distance"}

\* C6 as stated: the final output directory is created only after the domain,
\* coverage, provenance and distance gates have passed, and after every run that
\* aborts at a fatal condition the final output directory does not exist.
C6_NoFinalDirAfterAbort ==
    /\ pc = "done" => AllGates \subseteq gates
    /\ (pc = "aborted" \/ (pc = "exited" /\ exit_reason # "")) => ~fs.final

\* C6, amended: the existence of the final output directory changes only by the
\* rename at the end of a run that has passed the domain, coverage, provenance and
\* distance gates; every other step of a run, and so every run that aborts, leaves
\* the final output directory as it was before the run (absent, or already present
\* from an earlier build of the same build id).
C6_FinalDirOnlyByPromotion ==
    [][fs'.final # fs.final =>
          /\ ~fs.final /\ fs'.final
          /\ ~fs'.tmp
          /\ AllGates \subseteq gates
          /\ pc' = "done" /\ exit_reason' = ""]_vars

\* A run has passed every gate and renamed its temporary directory
C6_Witness ==
    /\ pc = "done"
    /\ fs.final /\ ~fs.tmp /\ fs.made_tmp
    /\ AllGates \subseteq gates
    /\ Len(stars) >= 2

\* C8: with proximity enabled, when the preflight estimate is strictly greater than
\* the limit the build aborts before any pairing query and any union-find operation
\* and no systems table is produced; when the estimate is at most the limit the
\* preflight does not abort.
C8_PreflightAbortsIffOverLimit ==
    pre.ran =>
        IF pre.estimate_pairs > pre.limit
        THEN /\ pc \in {"aborted", "exited"}
             /\ exit_reason = "preflight"
             /\ emitted = {} /\ pending = {} /\ pair_count = 0
             /\ unions = {} /\ uf = UnionFind
             /\ ~prox_groups.exists
             /\ system_groups = << >>
             /\ systems = << >>
             /\ ~fs.final
        ELSE exit_reason # "preflight"

\* The preflight has stopped a build whose estimate is over the limit
C8_Witness ==
    /\ pre.ran
    /\ proximity_enabled
    /\ pre.estimate_pairs > pre.limit
    /\ exit_reason = "preflight"
    /\ pc = "exited"

\* the proximity-eligible pairs (a, b) with a.id < b.id and squared distance at
\* most the squared max distance, read off the stars table
QualifyingPairs ==
    {p \in (1..Len(stars)) \X (1..Len(stars)) :
        /\ p[1] < p[2]
        /\ stars[p[1]].system_name_root_norm = NULL
        /\ stars[p[2]].system_name_root_norm = NULL
        /\ (stars[p[1]].x_helio_ly - stars[p[2]].x_helio_ly)
             * (stars[p[1]].x_helio_ly - stars[p[2]].x_helio_ly)
           + (stars[p[1]].y_helio_ly - stars[p[2]].y_helio_ly)
             * (stars[p[1]].y_helio_ly - stars[p[2]].y_helio_ly)
           + (stars[p[1]].z_helio_ly - stars[p[2]].z_helio_ly)
             * (stars[p[1]].z_helio_ly - stars[p[2]].z_helio_ly)
           <= PROX_MAX_DIST_LY * PROX_MAX_DIST_LY}

EmittedPairs == {<<e[1], e[2]>> : e \in emitted}

\* C9: with cell size equal to max distance, the pairs the batched join emits over
\* all batches are exactly the pairs (a, b) of proximity-eligible stars with
\* a.id < b.id and squared distance at most the squared max distance: none missed,
\* none extra, each emitted once, whatever the batch size.
C9_JoinEmitsExactPairs ==
    /\ pc = "pairing" =>
          /\ EmittedPairs \subseteq QualifyingPairs
          /\ Cardinality(emitted) = Cardinality(EmittedPairs)
    /\ pc = "grouping" =>
          /\ EmittedPairs = QualifyingPairs
          /\ Cardinality(emitted) = Cardinality(QualifyingPairs)
          /\ pair_count = Cardinality(QualifyingPairs)
          /\ unions = QualifyingPairs

\* The join ran in batches of one cell over several cells and emitted pairs inside a
\* cell and across cells, while some eligible pair is too far apart
C9_Witness ==
    /\ pc = "grouping"
    /\ batch_size = 1
    /\ Len(cells) >= 2
    /\ \E e \in emitted : neighbor_offsets[e[3]] = <<0, 0, 0>>
    /\ \E e \in emitted : neighbor_offsets[e[3]] # <<0, 0, 0>>
    /\ \E i, j \in 1..Len(ungrouped_cells) :
          i < j /\ <<ungrouped_cells[i].star_id, ungrouped_cells[j].star_id>>
                     \notin QualifyingPairs

\* the group key of a star
GroupKeyOf(id) ==
    system_groups[CHOOSE j \in 1..Len(system_groups) :
                     system_groups[j].star_id = id].system_group_key

\* C10: after the systems table is built every star has a non-null system_id of an
\* existing system, two stars have the same system_id exactly when they have the same
\* group key, and there are as many systems as distinct group keys.
C10_SystemIdsMatchGroups ==
    pc = "systems" =>
        /\ \A i \in 1..Len(stars) :
              /\ stars[i].system_id # NULL
              /\ \E n \in 1..Len(systems) : systems[n].system_id = stars[i].system_id
        /\ \A i, j \in 1..Len(stars) :
              (stars[i].system_id = stars[j].system_id)
                 <=> (GroupKeyOf(stars[i].star_id) = GroupKeyOf(stars[j].star_id))
        /\ Len(systems) =
              Cardinality({system_groups[j].system_group_key : j \in 1..Len(system_groups)})
        /\ \A m, n \in 1..Len(systems) :
              systems[m].system_id = systems[n].system_id => m = n

\* Three stars of one name root and one unrelated star, proximity disabled: 2 systems
C10_Witness ==
    /\ pc = "systems"
    /\ ~proximity_enabled
    /\ Len(stars) = 4
    /\ Cardinality({i \in 1..4 : stars[i].system_name_root_norm = 1}) = 3
    /\ Len(systems) = 2
    /\ systems[1].system_id # systems[2].system_id
    /\ Cardinality({stars[i].system_id : i \in 1..4}) = 2

\* the stars of the group of a systems row
MembersOf(n) ==
    {i \in 1..Len(stars) :
        \E j \in 1..Len(system_groups) :
           /\ system_groups[j].star_id = stars[i].star_id
           /\ system_groups[j].system_group_key = systems[n].system_group_key}

\* star p is a member with the lowest vmag (NULL counting as higher than every
\* value) and, among the members of that vmag, the lowest stable object key
IsCanonical(p, members) ==
    /\ p \in members
    /\ \A o \in members :
          /\ stars[p].vmag = NULL => stars[o].vmag = NULL
          /\ (stars[p].vmag # NULL /\ stars[o].vmag # NULL)
                => stars[p].vmag <= stars[o].vmag
          /\ stars[o].vmag = stars[p].vmag
                => stars[p].stable_object_key <= stars[o].stable_object_key

\* C11: for every group, whichever pass produced it, the system row's coordinates,
\* spatial key and stable key are those of a member star with the lowest vmag, a
\* star with null vmag only if every member has null vmag, ties in vmag going to the
\* lowest stable object key.
C11_CanonicalIsBrightest ==
    pc = "systems" =>
        \A n \in 1..Len(systems) :
           \E p \in MembersOf(n) :
              /\ IsCanonical(p, MembersOf(n))
              /\ systems[n].x_helio_ly = stars[p].x_helio_ly
              /\ systems[n].y_helio_ly = stars[p].y_helio_ly
              /\ systems[n].z_helio_ly = stars[p].z_helio_ly
              /\ systems[n].spatial_index = stars[p].spatial_index
              /\ systems[n].stable_object_key = <<"system", stars[p].stable_object_key>>

\* A proximity group whose star of lowest key has no vmag, so the system takes a
\* later star, next to a name group whose two stars differ in vmag
C11_Witness ==
    /\ pc = "systems"
    /\ proximity_enabled
    /\ \E n \in 1..Len(systems) :
          /\ systems[n].system_group_key[1] = "prox"
          /\ \E o \in MembersOf(n) :
                /\ stars[o].vmag = NULL
                /\ stars[o].stable_object_key < systems[n].stable_object_key[2]
                /\ stars[o].spatial_index # systems[n].spatial_index

\* the union-find root of a star that took part in the proximity pass
RootOf(id) == IF id \in items(uf) THEN find(uf, id).ret ELSE id

\* C12: with proximity enabled, two stars without a name root are assigned to the
\* same system if and only if they share a union-find root, that is, they are
\* connected by a chain of emitted proximity pairs.
C12_SameSystemIffSameRoot ==
    (pc = "systems" /\ proximity_enabled) =>
        \A i, j \in 1..Len(stars) :
           (stars[i].system_name_root_norm = NULL /\ stars[j].system_name_root_norm = NULL)
              => /\ (RootOf(stars[i].star_id) = RootOf(stars[j].star_id))
                       <=> Connected(stars[i].star_id, stars[j].star_id, EmittedPairs)
                 /\ (stars[i].system_id = stars[j].system_id)
                       <=> (RootOf(stars[i].star_id) = RootOf(stars[j].star_id))

\* the star took part in a proximity pair
InSomePair(id) == \E e \in emitted : e[1] = id \/ e[2] = id

\* C13: in every build, with proximity grouping enabled or disabled, each star that
\* has no name root and takes part in no proximity pair becomes its own group, whose
\* key is "solo:" followed by that star's stable key.
C13_IsolatedStarIsSolo ==
    pc = "groups" =>
        \A i \in 1..Len(stars) :
           (stars[i].system_name_root_norm = NULL /\ ~InSomePair(stars[i].star_id))
              => /\ GroupKeyOf(stars[i].star_id) = <<"solo", stars[i].stable_object_key>>
                 /\ \A j \in 1..Len(stars) :
                       GroupKeyOf(stars[j].star_id) = GroupKeyOf(stars[i].star_id) => j = i

\* the name_groups rows of a star
NameRowsOf(id) == {j \in 1..Len(name_groups) : name_groups[j].star_id = id}

\* the star has a Bayer or Flamsteed designation with its constellation, or a
\* catalog id
HasFallbackName(s) ==
    \/ s.bayer # NULL /\ s.con # NULL
    \/ s.flam # NULL /\ s.con # NULL
    \/ s.hip_id # NULL \/ s.hd_id # NULL \/ s.gaia_id # NULL

\* C14 as stated: a star with no proper name receives its system name root from the
\* chain Bayer+constellation, Flamsteed+constellation, catalog id, and is placed in
\* a "name:" group; only a star with none of these stays ungrouped by the name pass.
C14_FallbackRootIsGrouped ==
    pc = "named" =>
        \A i \in 1..Len(stars) :
           stars[i].proper = NULL =>
              IF HasFallbackName(stars[i])
              THEN /\ stars[i].system_name_root_norm # NULL
                   /\ NameRowsOf(stars[i].star_id) # {}
              ELSE NameRowsOf(stars[i].star_id) = {}

\* C15: on every run that terminates after acquiring the lock, whether it passes or
\* aborts at a fatal gate (domain, preflight budget, coverage, provenance, distance
\* invariant), the grouping report and the provenance and QC reports have been
\* written before the process exits.
C15_ReportsWrittenOnEveryExit ==
    (pc = "exited"
       /\ exit_reason \in {"", "domain", "preflight", "coverage", "provenance", "distance"})
      => {"system_grouping_report", "provenance_report", "qc_report"} \subseteq fs.reports

\* some star or system row with non-null x, y, z (and dist_ly) whose
\* |sqrt(x^2 + y^2 + z^2) - dist_ly| is strictly greater than the tolerance 1e-3
SomeRowOverTolerance ==
    \E rows \in {stars, systems} :
       \E i \in 1..Len(rows) :
          /\ rows[i].x_helio_ly # NULL /\ rows[i].y_helio_ly # NULL
          /\ rows[i].z_helio_ly # NULL
          /\ rows[i].dist_dev > DIST_TOLERANCE

\* C16: the distance-invariant gate aborts the build if and only if some star or
\* system row with non-null x, y, z and dist_ly has |sqrt(x^2+y^2+z^2) - dist_ly|
\* strictly greater than 1e-3; a row whose difference is exactly the tolerance
\* (sqrt 5.0, dist_ly 5.0 + 1e-3) passes, a row at 1.1e-3 fails, and rows with a
\* null among the four values are ignored.
C16_DistanceGateIffOverTolerance ==
    /\ (pc \in {"aborted", "exited"} /\ exit_reason = "distance") => SomeRowOverTolerance
    /\ pc = "qc_ok" => ~SomeRowOverTolerance


\* no build other than p has entered acquire_lock
AloneAcquiring(p) == \A q \in Builds \ {p} : lpc[q] = "start"

\* C17: a build that acquires with no concurrent acquirer is refused only by a lock file
\* that names a live process, so a stale lock file never refuses it; once it has
\* acquired, the stale file is gone and the lock file records its own pid and build id.
C17_StaleLockIsReplaced ==
    \A p \in Builds :
        AloneAcquiring(p) =>
            /\ lpc[p] = "failed" => lockFile = ForeignLockFile
            /\ lpc[p] = "unlink" => lockFile = StaleLockFile
            /\ lpc[p] = "holding" =>
                    lockFile = [exists |-> TRUE, creator |-> p, pid |-> p,
                                build_id |-> BuildId(p)]

\* a lone build has read the stale pid, removed the file and now holds its own lock
C17_Witness ==
    \E p \in Builds :
        /\ AloneAcquiring(p)
        /\ lpid[p] = StaleLockFile.pid
        /\ lpc[p] = "holding"
        /\ lockFile.pid = p
        /\ lockFile.build_id = BuildId(p)


\* C18: while the lock file names a live process, the build's first step is an abort
\* whose message quotes the pid recorded in that file, and no step of the build changes
\* the lock file or creates the temporary or the final output directory.
C18_LiveLockAborts ==
    [][lockFile = ForeignLockFile =>
          /\ lockFile' = lockFile
          /\ fs' = fs
          /\ pc' \in {"aborted", "exited"}
          /\ pc = "start" => /\ pc' = "aborted"
                             /\ exit_reason' = "lock"
                             /\ lpid'[SelfPid] = ForeignLockFile.pid]_vars

\* a build refused by the live lock has exited and the lock file is still the holder's
C18_Witness ==
    /\ pc = "exited"
    /\ exit_reason = "lock"
    /\ lpid[SelfPid] = ForeignPid
    /\ lockFile = ForeignLockFile
    /\ ~fs.made_tmp


\* the provenance gate has run: its report is written in the same step
ProvenanceGateRan == "provenance_report" \in fs.reports

\* a row with a NULL required field (retrieved_at, source_pk) or with neither a source
\* row id (source_pk) nor a source row hash (always NULL)
RowLacksRequired(r) == r.retrieved_at = NULL \/ r.source_pk = NULL

SomeRowLacksRequired ==
    \/ \E i \in 1..Len(stars) : RowLacksRequired(stars[i])
    \/ \E i \in 1..Len(systems) : RowLacksRequired(systems[i])
    \/ \E i \in 1..Len(planets) : RowLacksRequired(planets[i])

\* C19: once the provenance gate has run (its report is then written), the build has
\* aborted at it exactly when some row of stars, systems or planets lacks a required
\* provenance field or lacks both source row id and hash, and a build aborted at it
\* never has a final output directory.
C19_ProvenanceAbortIffMissing ==
    ProvenanceGateRan =>
        /\ SomeRowLacksRequired <=> exit_reason = "provenance"
        /\ exit_reason = "provenance" => ~fs.final /\ pc \in {"aborted", "exited"}


\* the star_ids of the stars whose name root is not NULL
RootedStars == {stars[i].star_id : i \in {j \in 1..Len(stars) : system_name_root(stars[j]) # NULL}}

\* the proximity pass is under way or done: its views over stars exist
ProximityPassRuns == pre.ran /\ pc \in {"pairing", "grouping"}

\* the star_ids binned into cells by the view ungrouped_cells
BinnedStars == {ungrouped_cells[i].star_id : i \in 1..Len(ungrouped_cells)}

\* the star_ids that appear in a pair returned by the pairing query, in a union call
\* or in the union-find
PairedStars ==
    {e[1] : e \in emitted} \cup {e[2] : e \in emitted}
    \cup {t[1] : t \in pending} \cup {t[2] : t \in pending}
    \cup {t[1] : t \in unions} \cup {t[2] : t \in unions}
    \cup items(uf)

\* the star_ids with a row in prox_groups or a 'prox:' row in system_groups
ProxGroupedStars ==
    (IF prox_groups.exists
     THEN {prox_groups.rows[i].star_id : i \in 1..Len(prox_groups.rows)} ELSE {})
    \cup {system_groups[i].star_id :
             i \in {j \in 1..Len(system_groups) : system_groups[j].system_group_key[1] = "prox"}}

\* C20: a star with a non-null name root is in no proximity cell, in no pair or union
\* and in no union-find, and has no 'prox:' group; and with proximity grouping
\* disabled no pair is generated, no union is made and pair_count stays 0.
C20_NamedStarsSkipProximity ==
    /\ ProximityPassRuns => RootedStars \cap BinnedStars = {}
    /\ RootedStars \cap PairedStars = {}
    /\ RootedStars \cap ProxGroupedStars = {}
    /\ ~proximity_enabled =>
          /\ emitted = {} /\ pending = {} /\ unions = {} /\ items(uf) = {}
          /\ pair_count = 0
          /\ ~prox_groups.exists

\* the proximity pass has paired and grouped unnamed stars while a star with a name
\* root lies within the maximum distance of one of them
C20_Witness ==
    /\ pc = "grouping"
    /\ unions # {}
    /\ prox_groups.exists
    /\ \E i, j \in 1..Len(stars) :
          /\ stars[i].star_id \in RootedStars
          /\ stars[j].star_id \in PairedStars
          /\ Dist2([x |-> stars[i].x_helio_ly, y |-> stars[i].y_helio_ly,
                    z |-> stars[i].z_helio_ly],
                   [x |-> stars[j].x_helio_ly, y |-> stars[j].y_helio_ly,
                    z |-> stars[j].z_helio_ly]) <= PROX_MAX_DIST_LY * PROX_MAX_DIST_LY


\* the star_ids that prox_groups covers, and those of them with the root of id
ProxStars == {prox_groups.rows[i].star_id : i \in 1..Len(prox_groups.rows)}

RootMembers(id) == {j \in ProxStars : RootOf(j) = RootOf(id)}

\* the star of id's root that comes first by vmag (nulls last), stable key, star_id
RootPrimary(id) ==
    CHOOSE s \in RootMembers(id) :
        \A t \in RootMembers(id) \ {s} : ProxPrimaryBefore(stars[s], stars[t])

\* the key prox_groups gives to star id
ProxKeyOf(id) ==
    LET i == CHOOSE j \in 1..Len(prox_groups.rows) : prox_groups.rows[j].star_id = id
    IN  prox_groups.rows[i].system_group_key

\* the systems row built for a group key
SystemOf(key) == CHOOSE n \in 1..Len(systems) : systems[n].system_group_key = key

\* the proximity pass has run and the systems table is built from its groups
ProxSystemsBuilt == pc = "systems" /\ proximity_enabled /\ prox_groups.exists

EntryRefused(e) ==
    \/ ~e.present
    \/ e.retrieved_at = NULL
    \/ e.sha256 = NULL /\ e.etag = NULL /\ e.retrieval_etag = NULL

\* the manifest has been loaded and one of its three required entries must be refused
ManifestRefused == man.manifest # << >> /\ \E i \in 1..3 : EntryRefused(man.manifest[i])

\* C22: a build whose loaded manifest has a required entry that is absent, lacks
\* retrieved_at or lacks all of sha256, etag and retrieval_etag has aborted at the
\* manifest gate: no cooked row was read, no stars table exists, nothing is promoted.
C22_BadManifestRefused ==
    ManifestRefused =>
        /\ pc \in {"aborted", "exited"}
        /\ exit_reason = "manifest"
        /\ stars = << >> /\ systems = << >> /\ planets = << >>
        /\ name_groups = << >> /\ ~pre.ran
        /\ ~fs.final

\* a build refused for an entry that has a timestamp but no checksum or etag has exited
C22_Witness ==
    /\ pc = "exited"
    /\ exit_reason = "manifest"
    /\ \E i \in 1..3 :
          /\ man.manifest[i].present
          /\ man.manifest[i].retrieved_at # NULL
          /\ EntryRefused(man.manifest[i])


\* the number whose bit i is bit 3i + axis of the key (axis 0, 1, 2 for x, y, z)
RECURSIVE AxisOfKey(_, _, _)
AxisOfKey(key, axis, i) ==
    IF i >= BITS_PER_AXIS THEN 0
    ELSE key[3 * i + axis + 1] + 2 * AxisOfKey(key, axis, i + 1)

\* quantized axis values that other coordinates may have: both ends of the range,
\* their neighbours and the two values around the origin
QuantProbes == {0, 1, 2, (MORTON_N - 1) \div 2, (MORTON_N + 1) \div 2, MORTON_N - 1, MORTON_N}

InDomainEncoded == encoded.called /\ NonNull(coord) /\ ~OutOfDomain(coord)

\* C23: the key of an in-domain coordinate has 3 * BITS_PER_AXIS binary digits, so it
\* lies in [0, 2^(3 * bits) - 1]; its bits 3i, 3i + 1 and 3i + 2 are bit i of the
\* quantized x, y and z; and a coordinate with quantized values (a, b, c) gets the same
\* key exactly when a, b and c equal the quantized values of this coordinate.
C23_KeyInterleavesQuantizedAxes ==
    InDomainEncoded =>
        LET xi == Quantize(coord[1])
            yi == Quantize(coord[2])
            zi == Quantize(coord[3])
        IN  /\ Len(encoded.key) = 3 * BITS_PER_AXIS
            /\ \A k \in 1..Len(encoded.key) : encoded.key[k] \in {0, 1}
            /\ \A i \in 0..(BITS_PER_AXIS - 1) :
                  /\ encoded.key[3 * i + 1] = Bit(xi, i)
                  /\ encoded.key[3 * i + 2] = Bit(yi, i)
                  /\ encoded.key[3 * i + 3] = Bit(zi, i)
            /\ AxisOfKey(encoded.key, 0, 0) = xi
            /\ AxisOfKey(encoded.key, 1, 0) = yi
            /\ AxisOfKey(encoded.key, 2, 0) = zi
            /\ \A a, b, c \in QuantProbes :
                  (Interleave(a, b, c) = encoded.key) <=> (a = xi /\ b = yi /\ c = zi)

\* a coordinate at the origin on x, one grid step inside the upper bound on y and at
\* the lower bound on z has been encoded: three different quantized values
C23_Witness ==
    /\ InDomainEncoded
    /\ coord = <<0, MORTON_MAX_ABS_LY - 1, 0 - MORTON_MAX_ABS_LY>>
    /\ AxisOfKey(encoded.key, 0, 0) = (MORTON_N - 1) \div 2
    /\ AxisOfKey(encoded.key, 2, 0) = 0


---------------------------------------------------------------------------
(* The API: systems_search and search_systems, cursor pagination *)

MaxSystems == 3
MaxPages == 4

\* the literals that stand in for NULL in the sort keys: 1e12 for dist_ly and
\* 9223372036854775807 for coolness_rank, here the largest values of their columns
DIST_NULL == 1000000
COOL_RANK_NULL == 2147483647

\* Rows of the served systems table, reduced to the columns the orderings read.
\* system_name_norm is a string: 0 is '', larger numbers are later strings.  match_rank
\* is the CASE expression evaluated for the request's query; NULL means no match.
SearchRows ==
    {[system_name_norm |-> 1, dist_ly |-> 1, coolness_rank |-> 1, match_rank |-> 0],
     [system_name_norm |-> 2, dist_ly |-> 1, coolness_rank |-> NULL, match_rank |-> NULL],
     [system_name_norm |-> 0, dist_ly |-> 2, coolness_rank |-> 2, match_rank |-> 1],
     [system_name_norm |-> NULL, dist_ly |-> NULL, coolness_rank |-> NULL, match_rank |-> 1],
     [system_name_norm |-> NULL, dist_ly |-> 1, coolness_rank |-> 1, match_rank |-> 0]}

\* systems tables: system_id is row_number(), so the ids are 1..n
SearchDbs ==
    UNION {{{[system_id |-> i, system_name_norm |-> s[i].system_name_norm,
              dist_ly |-> s[i].dist_ly, coolness_rank |-> s[i].coolness_rank,
              match_rank |-> s[i].match_rank] : i \in 1..n} :
               s \in [1..n -> SearchRows]} : n \in 1..MaxSystems}

SUPPORTED_SEARCH_MODES == {"name", "distance", "coolness", "match"}

\* COALESCE(v, d)
Coalesce(v, d) == IF v = NULL THEN d ELSE v

\* a before b under "ASC NULLS LAST"
NullsLastBefore(a, b) == a # NULL /\ (b = NULL \/ a < b)

\* a sorts strictly before b under the ORDER BY of the mode
OrderBefore(mode, a, b) ==
    IF mode = "match"
    THEN \/ a.match_rank < b.match_rank
         \/ /\ a.match_rank = b.match_rank
            /\ Coalesce(a.dist_ly, DIST_NULL) < Coalesce(b.dist_ly, DIST_NULL)
         \/ /\ a.match_rank = b.match_rank
            /\ Coalesce(a.dist_ly, DIST_NULL) = Coalesce(b.dist_ly, DIST_NULL)
            /\ Coalesce(a.system_name_norm, 0) < Coalesce(b.system_name_norm, 0)
         \/ /\ a.match_rank = b.match_rank
            /\ Coalesce(a.dist_ly, DIST_NULL) = Coalesce(b.dist_ly, DIST_NULL)
            /\ Coalesce(a.system_name_norm, 0) = Coalesce(b.system_name_norm, 0)
            /\ a.system_id < b.system_id
    ELSE IF mode = "distance"
    THEN \/ NullsLastBefore(a.dist_ly, b.dist_ly)
         \/ a.dist_ly = b.dist_ly /\ a.system_id < b.system_id
    ELSE IF mode = "coolness"
    THEN \/ Coalesce(a.coolness_rank, COOL_RANK_NULL) < Coalesce(b.coolness_rank, COOL_RANK_NULL)
         \/ /\ Coalesce(a.coolness_rank, COOL_RANK_NULL) = Coalesce(b.coolness_rank, COOL_RANK_NULL)
            /\ Coalesce(a.system_name_norm, 0) < Coalesce(b.system_name_norm, 0)
         \/ /\ Coalesce(a.coolness_rank, COOL_RANK_NULL) = Coalesce(b.coolness_rank, COOL_RANK_NULL)
            /\ Coalesce(a.system_name_norm, 0) = Coalesce(b.system_name_norm, 0)
            /\ a.system_id < b.system_id
    ELSE \/ NullsLastBefore(a.system_name_norm, b.system_name_norm)
         \/ a.system_name_norm = b.system_name_norm /\ a.system_id < b.system_id

\* the cursor clause of the mode, for row r and decoded cursor c
CursorClause(mode, r, c) ==
    IF mode = "match"
    THEN LET cursor_match == Coalesce(c.match_rank, 0)
             cursor_dist == Coalesce(c.dist, DIST_NULL)
         IN  \/ r.match_rank > cursor_match
             \/ r.match_rank = cursor_match /\ Coalesce(r.dist_ly, DIST_NULL) > cursor_dist
             \/ /\ r.match_rank = cursor_match
                /\ Coalesce(r.dist_ly, DIST_NULL) = cursor_dist
                /\ Coalesce(r.system_name_norm, 0) > c.name
             \/ /\ r.match_rank = cursor_match
                /\ Coalesce(r.dist_ly, DIST_NULL) = cursor_dist
                /\ Coalesce(r.system_name_norm, 0) = c.name
                /\ r.system_id > c.id
    ELSE IF mode = "distance"
    THEN LET cursor_dist == Coalesce(c.dist, DIST_NULL)
         IN  \/ Coalesce(r.dist_ly, DIST_NULL) > cursor_dist
             \/ Coalesce(r.dist_ly, DIST_NULL) = cursor_dist /\ r.system_id > c.id
    ELSE IF mode = "coolness"
    THEN LET cursor_rank == Coalesce(c.cool_rank, COOL_RANK_NULL)
         IN  \/ Coalesce(r.coolness_rank, COOL_RANK_NULL) > cursor_rank
             \/ /\ Coalesce(r.coolness_rank, COOL_RANK_NULL) = cursor_rank
                /\ Coalesce(r.system_name_norm, 0) > c.name
             \/ /\ Coalesce(r.coolness_rank, COOL_RANK_NULL) = cursor_rank
                /\ Coalesce(r.system_name_norm, 0) = c.name
                /\ r.system_id > c.id
    ELSE \/ Coalesce(r.system_name_norm, 0) > c.name
         \/ Coalesce(r.system_name_norm, 0) = c.name /\ r.system_id > c.id

\* ORDER BY over a set of rows
RECURSIVE SortRows(_, _)
SortRows(S, mode) ==
    IF S = {} THEN << >>
    ELSE LET f == CHOOSE r \in S : \A o \in S \ {r} : OrderBefore(mode, r, o)
         IN  <<f>> \o SortRows(S \ {f}, mode)

\* search_systems: filtered (match_rank IS NOT NULL in match mode), paged WHERE the
\* cursor clause, ORDER BY, LIMIT n
search_systems(db, mode, c, n) ==
    LET filtered_rows == IF mode = "match" THEN {r \in db : r.match_rank # NULL} ELSE db
        paged == IF c.present THEN {r \in filtered_rows : CursorClause(mode, r, c)}
                 ELSE filtered_rows
        sorted == SortRows(paged, mode)
    IN  SubSeq(sorted, 1, Min(n, Len(sorted)))

\* decode_cursor(encode_cursor(payload)) for the payload systems_search builds from the
\* last item: JSON keeps the values, the payload has replaced a NULL dist_ly by 1e12,
\* a NULL coolness_rank by the largest integer and a NULL or empty name by ''
CursorOf(mode, last) ==
    [present |-> TRUE,
     sort |-> mode,
     match_rank |-> IF mode = "match" THEN last.match_rank ELSE NULL,
     dist |-> IF mode \in {"match", "distance"} THEN Coalesce(last.dist_ly, DIST_NULL)
              ELSE NULL,
     cool_rank |-> IF mode = "coolness" THEN Coalesce(last.coolness_rank, COOL_RANK_NULL)
                   ELSE NULL,
     name |-> IF mode = "distance" THEN NULL ELSE Coalesce(last.system_name_norm, 0),
     id |-> last.system_id]

InitSearch ==
    /\ UFIdle
    /\ LockIdle
    /\ MortonIdle
    /\ BuildIdle
    /\ JobsIdle
    /\ search_db \in SearchDbs
    /\ search_mode \in SUPPORTED_SEARCH_MODES
    /\ search_limit \in 1..2
    /\ page_items = << >>
    /\ next_cursor = NoCursor
    /\ pages = << >>

\* systems_search with the given cursor: limit + 1 rows are asked for, has_more,
\* items = rows[:limit], next_cursor from the last item
Respond(c) ==
    LET rows == search_systems(search_db, search_mode, c, search_limit + 1)
        has_more == Len(rows) > search_limit
        its == SubSeq(rows, 1, Min(search_limit, Len(rows)))
    IN  /\ page_items' = its
        /\ next_cursor' = IF has_more /\ its # << >>
                          THEN CursorOf(search_mode, its[Len(its)]) ELSE NoCursor
        /\ pages' = Append(pages, {its[k].system_id : k \in 1..Len(its)})
        /\ UNCHANGED <<search_db, search_mode, search_limit, ufVars, lockVars,
                       mortonVars, buildVars, jobVars>>

\* GET /systems/search without a cursor
SearchFirst ==
    /\ pages = << >>
    /\ Respond(NoCursor)

\* GET /systems/search with the next_cursor of the previous response
SearchNext ==
    /\ next_cursor.present
    /\ Len(pages) < MaxPages
    /\ Respond(next_cursor)

NextSearch == SearchFirst \/ SearchNext

SpecSearch == InitSearch /\ [][NextSearch]_vars

\* C24: the pages reached by following next_cursor are pairwise disjoint in every
\* sort mode: no system_id appears on two of them.
C24_CursorPagesDisjoint ==
    \A i, j \in 1..Len(pages) : i < j => pages[i] \cap pages[j] = {}


\* the name pass has run with proximity enabled and has grouped every star
EnabledAllNamed ==
    /\ proximity_enabled
    /\ pc # "named"
    /\ Len(stars) > 0
    /\ \A i \in 1..Len(stars) : system_name_root(stars[i]) # NULL

\* C25: with proximity enabled and every star grouped by the name pass, the proximity
\* pass is skipped and grouping completes: the build does not fail at the membership
\* table or at the coverage gate, and the membership table is the name groups.
C25_EnabledNoEligibleCompletes ==
    EnabledAllNamed =>
        /\ ~pre.ran /\ ~prox_groups.exists
        /\ exit_reason \notin {"no_prox_groups", "coverage"}
        /\ pc = "groups" => system_groups = name_groups


\* the preflight has run and the view ungrouped_cells can still be read
PreflightDone == pre.ran /\ (pc \in {"pairing", "grouping"} \/ exit_reason = "preflight")

\* unordered pairs of distinct eligible stars whose cells differ by at most one on
\* every axis
AdjacentPairs ==
    LET uc == ungrouped_cells
    IN  {t \in (1..Len(uc)) \X (1..Len(uc)) :
            /\ t[1] < t[2]
            /\ \A a \in 1..3 : Abs(uc[t[1]].cell[a] - uc[t[2]].cell[a]) <= 1}

\* C26: neighbor_upper is exactly the number of unordered pairs of distinct eligible
\* stars in the same or in adjacent cells; it is at least intra_pairs, and the
\* preflight estimate equals it.
C26_NeighborUpperCountsAdjacentPairs ==
    PreflightDone =>
        /\ pre.neighbor_upper = Cardinality(AdjacentPairs)
        /\ pre.neighbor_upper >= pre.intra_pairs
        /\ pre.estimate_pairs = pre.neighbor_upper

\* a preflight over three stars of which two share a cell and the third lies in an
\* adjacent cell
C26_Witness ==
    /\ PreflightDone
    /\ pre.intra_pairs > 0
    /\ pre.neighbor_upper > pre.intra_pairs
    /\ Len(ungrouped_cells) >= 3


\* the element reached from x by following n parent pointers
RECURSIVE Up(_, _, _)
Up(u, x, n) == IF n = 0 THEN x ELSE Up(u, u.parent[x], n - 1)

\* C27: the parent map is a forest: every parent is an element, following the parent
\* pointers from an element reaches a self-parented root within as many steps as there
\* are elements and never comes back to an element that is not a root, and every
\* non-root element has a rank strictly below the rank of its parent.
C27_ParentMapIsForest ==
    LET n == Cardinality(items(uf))
    IN  /\ DOMAIN uf.rank = items(uf)
        /\ \A x \in items(uf) :
              /\ uf.parent[x] \in items(uf)
              /\ uf.parent[Up(uf, x, n)] = Up(uf, x, n)
              /\ uf.parent[x] # x =>
                    /\ \A k \in 1..n : Up(uf, x, k) # x
                    /\ uf.rank[x] < uf.rank[uf.parent[x]]

\* a tree of height two: an element whose parent is not a root, under a root of rank 2
C27_Witness ==
    \E x \in items(uf) :
        /\ uf.parent[x] # x
        /\ uf.parent[uf.parent[x]] # uf.parent[x]
        /\ uf.rank[uf.parent[uf.parent[x]]] = 2


\* C28: a build that held the lock and has terminated (by completion, by an abort or
\* after SIGINT / SIGTERM) has left no lock file of its own behind: the lock file, if
\* one exists, was created by another build, and a terminated build is not the one a
\* later build finds alive.
C28_LockRemovedAtExit ==
    \A p \in Builds :
        /\ lpc[p] \in {"signalled", "exited"} => ~(lockFile.exists /\ lockFile.creator = p)
        /\ lpc[p] = "exited" => ~ProcessExists(p)

\* one build took the lock without meeting a lock file and has terminated; another
\* build has then found no lock file either and holds the lock itself
C28_Witness ==
    \E p, q \in Builds :
        /\ p # q
        /\ lpc[p] = "exited"
        /\ lpid[p] = NULL
        /\ lpc[q] = "holding"
        /\ lpid[q] = NULL
        /\ lockFile.pid = q


\* a row for which count_retrieval_missing counts: both retrieval columns are NULL
RetrievalMissing(r) == r.retrieval_etag = NULL /\ r.retrieval_checksum = NULL

\* C29: once the manifest gate is passed, every row of stars and of systems has a
\* retrieval_etag or a retrieval_checksum, so count_retrieval_missing is 0 for both.
C29_RetrievalColumnsFilled ==
    "manifest" \in gates =>
        /\ \A i \in 1..Len(stars) : ~RetrievalMissing(stars[i])
        /\ \A i \in 1..Len(systems) : ~RetrievalMissing(systems[i])

---------------------------------------------------------------------------
(* Admin jobs: srv/api/app/admin_actions.py.  Job ids are the row numbers of       *)
(* admin_jobs; threads are the request threads running start_job and the worker   *)
(* threads _start_queued_jobs launches.                                            *)

\* at most MaxJobs jobs are requested in a run
MaxJobs == 4
\* request threads that may be inside start_job at the same time
NumCallers == 2
\* largest value given to the two environment settings
MaxEnvInt == 2

DEFAULT_MAX_RUNNING_JOBS == 1
DEFAULT_MAX_QUEUED_JOBS == 20

Callers == 1..NumCallers
JobIds == 1..MaxJobs

\* the values os.getenv yields for a setting: unset (NULL), or an integer text
EnvInts == {NULL} \cup (0..MaxEnvInt)

\* _parse_env_int: the default unless the setting is a positive integer
parse_env_int(raw, default) ==
    IF raw = NULL THEN default ELSE IF raw > 0 THEN raw ELSE default

max_concurrent_jobs(raw) == parse_env_int(raw, DEFAULT_MAX_RUNNING_JOBS)
max_queued_jobs(raw) == parse_env_int(raw, DEFAULT_MAX_QUEUED_JOBS)

RowsWithStatus(t, st) == {j \in 1..Len(t) : t[j].status = st}
count_running_jobs(t) == Cardinality(RowsWithStatus(t, "running"))
count_queued_jobs(t) == Cardinality(RowsWithStatus(t, "queued"))

\* slots computed without the count of running jobs
slots_all(max_running, running) == max_running

\* _start_queued_jobs: the free slots
slots(max_running, running) == Max(0, max_running - running)

\* SELECT ... WHERE status = 'queued' ORDER BY created_at ASC LIMIT n: the job ids
\* in each order the statement may return them (created_at has one-second
\* resolution, rows of the same second come in any order)
QueuedRowChoices(t, n) ==
    LET q == RowsWithStatus(t, "queued")
        k == Min(n, Cardinality(q))
    IN  {s \in [1..k -> q] :
            /\ \A a, b \in 1..k : a < b => s[a] # s[b] /\ t[s[a]].created_at <= t[s[b]].created_at
            /\ \A j \in q : (\A a \in 1..k : s[a] # j) =>
                   \A a \in 1..k : t[s[a]].created_at <= t[j].created_at}

CallerThread(c) == <<"caller", c>>
WorkerThread(j) == <<"worker", j>>
JobThreads == {CallerThread(c) : c \in Callers} \cup {WorkerThread(j) : j \in JobIds}

\* the thread is at its call of _start_queued_jobs
AtStartQueued(t) ==
    \/ t[1] = "caller" /\ caller_pc[t[2]] = "start_queued"
    \/ t[1] = "worker" /\ t[2] <= Len(worker_pc) /\ worker_pc[t[2]] = "start_queued"

\* the positions of the request threads once thread t has returned from
\* _start_queued_jobs (start_job then returns get_job(job_id))
CallersAfterReturn(t) ==
    [c \in Callers |-> IF t = CallerThread(c) THEN "idle" ELSE caller_pc[c]]

\* the positions of the worker threads once thread t has returned from
\* _start_queued_jobs and threads for the job ids in started have been started
WorkersAfterReturn(t, started) ==
    [j \in 1..Len(worker_pc) |->
        IF j \in started THEN "working"
        ELSE IF t = WorkerThread(j) THEN "done" ELSE worker_pc[j]]

InitJobs ==
    /\ UFIdle
    /\ LockIdle
    /\ MortonIdle
    /\ BuildIdle
    /\ SearchIdle
    /\ admin_jobs = << >>
    /\ job_now = 0
    /\ runner_lock = LockFree
    /\ caller_pc = [c \in Callers |-> "idle"]
    /\ worker_pc = << >>
    /\ \E r, q \in EnvInts :
           job_cfg = [max_running |-> max_concurrent_jobs(r),
                      max_queued |-> max_queued_jobs(q)]
    /\ launched = << >>
    /\ job_reply = ""

\* start_job up to its call of _start_queued_jobs: under _RUNNER_LOCK, refuse when
\* the queue is full, else insert the job as 'queued'
StartJobInsert(c) ==
    /\ caller_pc[c] = "idle"
    /\ runner_lock = LockFree
    /\ Len(admin_jobs) < MaxJobs
    /\ IF count_queued_jobs(admin_jobs) >= job_cfg.max_queued
       THEN /\ job_reply' = "too_many"
            /\ UNCHANGED <<admin_jobs, job_now, caller_pc, worker_pc, launched>>
       ELSE \E d \in 0..1 :
            /\ job_now' = job_now + d
            /\ admin_jobs' = Append(admin_jobs,
                                    [status |-> "queued", created_at |-> job_now + d])
            /\ worker_pc' = Append(worker_pc, "none")
            /\ launched' = Append(launched, 0)
            /\ caller_pc' = [caller_pc EXCEPT ![c] = "start_queued"]
            /\ job_reply' = "inserted"
    /\ UNCHANGED <<runner_lock, job_cfg, ufVars, lockVars, mortonVars, buildVars, searchVars>>

\* _start_queued_jobs, first half: take _RUNNER_LOCK, count the running jobs and
\* select the queued rows for the free slots; return when there is no slot or no row
StartQueuedSelect(t) ==
    /\ AtStartQueued(t)
    /\ runner_lock = LockFree
    /\ LET running == count_running_jobs(admin_jobs)
           free == slots(job_cfg.max_running, running)
       IN  \E rows \in QueuedRowChoices(admin_jobs, free) :
               IF free = 0 \/ rows = << >>
               THEN /\ caller_pc' = CallersAfterReturn(t)
                    /\ worker_pc' = WorkersAfterReturn(t, {})
                    /\ UNCHANGED runner_lock
               ELSE /\ runner_lock' = [holder |-> t, rows |-> rows]
                    /\ UNCHANGED <<caller_pc, worker_pc>>
    /\ UNCHANGED <<admin_jobs, job_now, job_cfg, launched, job_reply,
                   ufVars, lockVars, mortonVars, buildVars, searchVars>>

\* _start_queued_jobs, second half: set each selected row that is still 'queued' to
\* 'running', commit, release _RUNNER_LOCK and start a worker thread per selected row
StartQueuedLaunch(t) ==
    /\ runner_lock.holder = t
    /\ LET rows == runner_lock.rows
           ids == {rows[a] : a \in 1..Len(rows)}
       IN  /\ admin_jobs' = [j \in 1..Len(admin_jobs) |->
                                IF j \in ids /\ admin_jobs[j].status = "queued"
                                THEN [admin_jobs[j] EXCEPT !.status = "running"]
                                ELSE admin_jobs[j]]
           /\ launched' = [j \in 1..Len(launched) |->
                                IF j \in ids THEN launched[j] + 1 ELSE launched[j]]
           /\ caller_pc' = CallersAfterReturn(t)
           /\ worker_pc' = WorkersAfterReturn(t, ids)
    /\ runner_lock' = LockFree
    /\ UNCHANGED <<job_now, job_cfg, job_reply,
                   ufVars, lockVars, mortonVars, buildVars, searchVars>>

\* cancel_job: under _RUNNER_LOCK, only a queued job is set to 'cancelled'
CancelJob(j) ==
    /\ runner_lock = LockFree
    /\ IF j > Len(admin_jobs)
       THEN job_reply' = "not_found" /\ UNCHANGED admin_jobs
       ELSE IF admin_jobs[j].status # "queued"
       THEN job_reply' = "not_queued" /\ UNCHANGED admin_jobs
       ELSE /\ admin_jobs' = [admin_jobs EXCEPT ![j].status = "cancelled"]
            /\ job_reply' = "cancelled"
    /\ UNCHANGED <<job_now, runner_lock, caller_pc, worker_pc, job_cfg, launched,
                   ufVars, lockVars, mortonVars, buildVars, searchVars>>

\* _run_job_worker up to its call of _start_queued_jobs: the command has ended and
\* the row is set to 'succeeded' or 'failed', without _RUNNER_LOCK
WorkerFinish(j) ==
    /\ j <= Len(worker_pc)
    /\ worker_pc[j] = "working"
    /\ \E st \in {"succeeded", "failed"} :
           admin_jobs' = [admin_jobs EXCEPT ![j].status = st]
    /\ worker_pc' = [worker_pc EXCEPT ![j] = "start_queued"]
    /\ UNCHANGED <<job_now, runner_lock, caller_pc, job_cfg, launched, job_reply,
                   ufVars, lockVars, mortonVars, buildVars, searchVars>>

NextJobs ==
    \/ \E c \in Callers : StartJobInsert(c)
    \/ \E t \in JobThreads : StartQueuedSelect(t)
    \/ \E t \in JobThreads : StartQueuedLaunch(t)
    \/ \E j \in JobIds : CancelJob(j)
    \/ \E j \in JobIds : WorkerFinish(j)

SpecJobs == InitJobs /\ [][NextJobs]_vars

\* no more jobs are 'running' than the configured maximum
RunningBounded == count_running_jobs(admin_jobs) <= job_cfg.max_running

\* a cancelled job has had no worker thread
CancelledNotLaunched ==
    \A j \in 1..Len(admin_jobs) :
        admin_jobs[j].status = "cancelled" => launched[j] = 0 /\ worker_pc[j] = "none"

\* in one step, a row that becomes 'running' was 'queued', and a 'cancelled' row
\* stays 'cancelled'
JobStatusStep ==
    \A j \in 1..Len(admin_jobs') :
        /\ (admin_jobs'[j].status = "running"
              /\ (j > Len(admin_jobs) \/ admin_jobs[j].status # "running"))
           => (j <= Len(admin_jobs) /\ admin_jobs[j].status = "queued")
        /\ (j <= Len(admin_jobs) /\ admin_jobs[j].status = "cancelled")
           => admin_jobs'[j].status = "cancelled"

\* C30: under every interleaving of start_job, cancel_job and worker completions in
\* one process, the number of 'running' jobs never exceeds the configured maximum
\* (1 when the setting is absent), a job becomes 'running' only from 'queued', and a
\* cancelled job is never started.
C30_RunningJobsBounded ==
    /\ []RunningBounded
    /\ []CancelledNotLaunched
    /\ [][JobStatusStep]_vars

\* the running jobs fill the configured maximum while one job is cancelled, one has
\* been completed by its worker and one more waits in the queue
C30_Witness ==
    /\ count_running_jobs(admin_jobs) = job_cfg.max_running
    /\ RowsWithStatus(admin_jobs, "cancelled") # {}
    /\ RowsWithStatus(admin_jobs, "queued") # {}
    /\ \E j \in 1..Len(admin_jobs) :
           admin_jobs[j].status \in {"succeeded", "failed"} /\ worker_pc[j] = "done"

===========================================================================
